---- MODULE Spec2Model ----
(***************************************************************************)
(* BLEPTD - BLE Privacy Threat Detector.                                   *)
(* Model of the advertisement signature matcher (matchSignature), the      *)
(* detected-device registry (ScanCallbacks::onResult), the packet forger   *)
(* (TXManager::buildAdvertisingData) and the TX session manager            *)
(* (TXManager::startTx / stopTx / stopAll / process).                      *)
(*                                                                         *)
(* Strings are sequences of character codes, byte buffers are sequences of *)
(* values in 0..255, C arrays indexed from 0 are functions on 0..N-1.      *)
(***************************************************************************)
EXTENDS Integers, Sequences, FiniteSets, TLC

\* ---------------------------------------------------------------------------
\* config.h
\* ---------------------------------------------------------------------------
TX_DEFAULT_INTERVAL_MS == 100
TX_MAX_CONCURRENT == 8
TX_CONFUSION_MAX_DEVICES == 16
DETECTED_DEVICES_MAX == 64

CAT_UNKNOWN == 0
CAT_TRACKER == 1
CAT_GLASSES == 2
CAT_MEDICAL == 4
CAT_WEARABLE == 8
CAT_AUDIO == 16

DEFAULT_CATEGORY_FILTER == CAT_TRACKER + CAT_GLASSES + CAT_WEARABLE + CAT_AUDIO

THREAT_LOW == 1
THREAT_MEDIUM == 2
THREAT_HIGH == 3
THREAT_SEVERE == 4
THREAT_CRITICAL == 5

\* ---------------------------------------------------------------------------
\* detection/signatures.h
\* ---------------------------------------------------------------------------
SIG_FLAG_COMPANY_ID == 1
SIG_FLAG_PAYLOAD == 2
SIG_FLAG_SERVICE_UUID == 4
SIG_FLAG_NAME_PATTERN == 8
SIG_FLAG_EXACT_MATCH == 16
SIG_FLAG_TRANSMITTABLE == 32
SIG_FLAG_MEDICAL == 64

BUILTIN_SIGNATURES ==
  <<
    \* 'AirTag (Registered)'  (signatures.h:74)
    [ name |-> << 65, 105, 114, 84, 97, 103, 32, 40, 82, 101, 103, 105, 115, 116, 101, 114, 101, 100, 41 >>,
      category |-> CAT_TRACKER, company_id |-> 76,
      payload_pattern |-> << 76, 0, 7, 25, 0, 0, 0, 0 >>,
      pattern_length |-> 4, pattern_offset |-> 0, service_uuid |-> 0,
      threat_level |-> THREAT_SEVERE, flags |-> SIG_FLAG_COMPANY_ID + SIG_FLAG_PAYLOAD + SIG_FLAG_TRANSMITTABLE ],
    \* 'AirTag (Unregistered)'  (signatures.h:75)
    [ name |-> << 65, 105, 114, 84, 97, 103, 32, 40, 85, 110, 114, 101, 103, 105, 115, 116, 101, 114, 101, 100, 41 >>,
      category |-> CAT_TRACKER, company_id |-> 76,
      payload_pattern |-> << 76, 0, 18, 25, 0, 0, 0, 0 >>,
      pattern_length |-> 4, pattern_offset |-> 0, service_uuid |-> 0,
      threat_level |-> THREAT_SEVERE, flags |-> SIG_FLAG_COMPANY_ID + SIG_FLAG_PAYLOAD + SIG_FLAG_TRANSMITTABLE ],
    \* 'Samsung SmartTag'  (signatures.h:76)
    [ name |-> << 83, 97, 109, 115, 117, 110, 103, 32, 83, 109, 97, 114, 116, 84, 97, 103 >>,
      category |-> CAT_TRACKER, company_id |-> 117,
      payload_pattern |-> << 117, 0, 66, 9, 1, 0, 0, 0 >>,
      pattern_length |-> 5, pattern_offset |-> 0, service_uuid |-> 0,
      threat_level |-> THREAT_SEVERE, flags |-> SIG_FLAG_COMPANY_ID + SIG_FLAG_PAYLOAD + SIG_FLAG_TRANSMITTABLE ],
    \* 'Samsung SmartTag2'  (signatures.h:77)
    [ name |-> << 83, 97, 109, 115, 117, 110, 103, 32, 83, 109, 97, 114, 116, 84, 97, 103, 50 >>,
      category |-> CAT_TRACKER, company_id |-> 117,
      payload_pattern |-> << 117, 0, 66, 9, 2, 0, 0, 0 >>,
      pattern_length |-> 5, pattern_offset |-> 0, service_uuid |-> 0,
      threat_level |-> THREAT_SEVERE, flags |-> SIG_FLAG_COMPANY_ID + SIG_FLAG_PAYLOAD + SIG_FLAG_TRANSMITTABLE ],
    \* 'Tile'  (signatures.h:78)
    [ name |-> << 84, 105, 108, 101 >>,
      category |-> CAT_TRACKER, company_id |-> 65260,
      payload_pattern |-> << 236, 254, 0, 0, 0, 0, 0, 0 >>,
      pattern_length |-> 2, pattern_offset |-> -1, service_uuid |-> 0,
      threat_level |-> THREAT_SEVERE, flags |-> SIG_FLAG_COMPANY_ID + SIG_FLAG_PAYLOAD + SIG_FLAG_TRANSMITTABLE ],
    \* 'Tile (Alt)'  (signatures.h:79)
    [ name |-> << 84, 105, 108, 101, 32, 40, 65, 108, 116, 41 >>,
      category |-> CAT_TRACKER, company_id |-> 65261,
      payload_pattern |-> << 237, 254, 0, 0, 0, 0, 0, 0 >>,
      pattern_length |-> 2, pattern_offset |-> -1, service_uuid |-> 0,
      threat_level |-> THREAT_SEVERE, flags |-> SIG_FLAG_COMPANY_ID + SIG_FLAG_PAYLOAD + SIG_FLAG_TRANSMITTABLE ],
    \* 'Chipolo'  (signatures.h:80)
    [ name |-> << 67, 104, 105, 112, 111, 108, 111 >>,
      category |-> CAT_TRACKER, company_id |-> 65125,
      payload_pattern |-> << 101, 254, 0, 0, 0, 0, 0, 0 >>,
      pattern_length |-> 2, pattern_offset |-> -1, service_uuid |-> 0,
      threat_level |-> THREAT_SEVERE, flags |-> SIG_FLAG_COMPANY_ID + SIG_FLAG_PAYLOAD + SIG_FLAG_TRANSMITTABLE ],
    \* 'Meta Ray-Ban'  (signatures.h:83)
    [ name |-> << 77, 101, 116, 97, 32, 82, 97, 121, 45, 66, 97, 110 >>,
      category |-> CAT_GLASSES, company_id |-> 427,
      payload_pattern |-> << 0, 0, 0, 0, 0, 0, 0, 0 >>,
      pattern_length |-> 0, pattern_offset |-> -1, service_uuid |-> 0,
      threat_level |-> THREAT_CRITICAL, flags |-> SIG_FLAG_COMPANY_ID + SIG_FLAG_TRANSMITTABLE ],
    \* 'Meta Ray-Ban (Tech)'  (signatures.h:84)
    [ name |-> << 77, 101, 116, 97, 32, 82, 97, 121, 45, 66, 97, 110, 32, 40, 84, 101, 99, 104, 41 >>,
      category |-> CAT_GLASSES, company_id |-> 1422,
      payload_pattern |-> << 0, 0, 0, 0, 0, 0, 0, 0 >>,
      pattern_length |-> 0, pattern_offset |-> -1, service_uuid |-> 0,
      threat_level |-> THREAT_CRITICAL, flags |-> SIG_FLAG_COMPANY_ID + SIG_FLAG_TRANSMITTABLE ],
    \* 'Meta Ray-Ban (Luxottica)'  (signatures.h:85)
    [ name |-> << 77, 101, 116, 97, 32, 82, 97, 121, 45, 66, 97, 110, 32, 40, 76, 117, 120, 111, 116, 116, 105, 99, 97, 41 >>,
      category |-> CAT_GLASSES, company_id |-> 3411,
      payload_pattern |-> << 0, 0, 0, 0, 0, 0, 0, 0 >>,
      pattern_length |-> 0, pattern_offset |-> -1, service_uuid |-> 0,
      threat_level |-> THREAT_CRITICAL, flags |-> SIG_FLAG_COMPANY_ID + SIG_FLAG_TRANSMITTABLE ],
    \* 'Snap Spectacles'  (signatures.h:86)
    [ name |-> << 83, 110, 97, 112, 32, 83, 112, 101, 99, 116, 97, 99, 108, 101, 115 >>,
      category |-> CAT_GLASSES, company_id |-> 962,
      payload_pattern |-> << 0, 0, 0, 0, 0, 0, 0, 0 >>,
      pattern_length |-> 0, pattern_offset |-> -1, service_uuid |-> 0,
      threat_level |-> THREAT_CRITICAL, flags |-> SIG_FLAG_COMPANY_ID + SIG_FLAG_TRANSMITTABLE ],
    \* 'Amazon Echo Frames'  (signatures.h:87)
    [ name |-> << 65, 109, 97, 122, 111, 110, 32, 69, 99, 104, 111, 32, 70, 114, 97, 109, 101, 115 >>,
      category |-> CAT_GLASSES, company_id |-> 369,
      payload_pattern |-> << 0, 0, 0, 0, 0, 0, 0, 0 >>,
      pattern_length |-> 0, pattern_offset |-> -1, service_uuid |-> 0,
      threat_level |-> THREAT_HIGH, flags |-> SIG_FLAG_COMPANY_ID + SIG_FLAG_TRANSMITTABLE ],
    \* 'Bose Frames'  (signatures.h:88)
    [ name |-> << 66, 111, 115, 101, 32, 70, 114, 97, 109, 101, 115 >>,
      category |-> CAT_GLASSES, company_id |-> 158,
      payload_pattern |-> << 0, 0, 0, 0, 0, 0, 0, 0 >>,
      pattern_length |-> 0, pattern_offset |-> -1, service_uuid |-> 0,
      threat_level |-> THREAT_MEDIUM, flags |-> SIG_FLAG_COMPANY_ID + SIG_FLAG_TRANSMITTABLE ],
    \* 'Dexcom CGM'  (signatures.h:91)
    [ name |-> << 68, 101, 120, 99, 111, 109, 32, 67, 71, 77 >>,
      category |-> CAT_MEDICAL, company_id |-> 209,
      payload_pattern |-> << 0, 0, 0, 0, 0, 0, 0, 0 >>,
      pattern_length |-> 0, pattern_offset |-> -1, service_uuid |-> 65212,
      threat_level |-> THREAT_MEDIUM, flags |-> SIG_FLAG_COMPANY_ID + SIG_FLAG_SERVICE_UUID + SIG_FLAG_MEDICAL ],
    \* 'Medtronic Device'  (signatures.h:92)
    [ name |-> << 77, 101, 100, 116, 114, 111, 110, 105, 99, 32, 68, 101, 118, 105, 99, 101 >>,
      category |-> CAT_MEDICAL, company_id |-> 677,
      payload_pattern |-> << 0, 0, 0, 0, 0, 0, 0, 0 >>,
      pattern_length |-> 0, pattern_offset |-> -1, service_uuid |-> 0,
      threat_level |-> THREAT_MEDIUM, flags |-> SIG_FLAG_COMPANY_ID + SIG_FLAG_MEDICAL ],
    \* 'Omnipod'  (signatures.h:93)
    [ name |-> << 79, 109, 110, 105, 112, 111, 100 >>,
      category |-> CAT_MEDICAL, company_id |-> 2082,
      payload_pattern |-> << 0, 0, 0, 0, 0, 0, 0, 0 >>,
      pattern_length |-> 0, pattern_offset |-> -1, service_uuid |-> 6192,
      threat_level |-> THREAT_MEDIUM, flags |-> SIG_FLAG_COMPANY_ID + SIG_FLAG_SERVICE_UUID + SIG_FLAG_MEDICAL ],
    \* 'Abbott FreeStyle'  (signatures.h:94)
    [ name |-> << 65, 98, 98, 111, 116, 116, 32, 70, 114, 101, 101, 83, 116, 121, 108, 101 >>,
      category |-> CAT_MEDICAL, company_id |-> 1560,
      payload_pattern |-> << 0, 0, 0, 0, 0, 0, 0, 0 >>,
      pattern_length |-> 0, pattern_offset |-> -1, service_uuid |-> 0,
      threat_level |-> THREAT_MEDIUM, flags |-> SIG_FLAG_COMPANY_ID + SIG_FLAG_MEDICAL ],
    \* 'Fitbit'  (signatures.h:97)
    [ name |-> << 70, 105, 116, 98, 105, 116 >>,
      category |-> CAT_WEARABLE, company_id |-> 548,
      payload_pattern |-> << 0, 0, 0, 0, 0, 0, 0, 0 >>,
      pattern_length |-> 0, pattern_offset |-> -1, service_uuid |-> 0,
      threat_level |-> THREAT_LOW, flags |-> SIG_FLAG_COMPANY_ID ],
    \* 'Garmin'  (signatures.h:98)
    [ name |-> << 71, 97, 114, 109, 105, 110 >>,
      category |-> CAT_WEARABLE, company_id |-> 135,
      payload_pattern |-> << 0, 0, 0, 0, 0, 0, 0, 0 >>,
      pattern_length |-> 0, pattern_offset |-> -1, service_uuid |-> 0,
      threat_level |-> THREAT_LOW, flags |-> SIG_FLAG_COMPANY_ID ],
    \* 'Sony Audio'  (signatures.h:101)
    [ name |-> << 83, 111, 110, 121, 32, 65, 117, 100, 105, 111 >>,
      category |-> CAT_AUDIO, company_id |-> 301,
      payload_pattern |-> << 0, 0, 0, 0, 0, 0, 0, 0 >>,
      pattern_length |-> 0, pattern_offset |-> -1, service_uuid |-> 0,
      threat_level |-> THREAT_LOW, flags |-> SIG_FLAG_COMPANY_ID ],
    \* 'Bose Audio'  (signatures.h:102)
    [ name |-> << 66, 111, 115, 101, 32, 65, 117, 100, 105, 111 >>,
      category |-> CAT_AUDIO, company_id |-> 158,
      payload_pattern |-> << 0, 0, 0, 0, 0, 0, 0, 0 >>,
      pattern_length |-> 0, pattern_offset |-> -1, service_uuid |-> 0,
      threat_level |-> THREAT_LOW, flags |-> SIG_FLAG_COMPANY_ID ]
  >>

BUILTIN_SIGNATURE_COUNT == Len(BUILTIN_SIGNATURES)

\* BUILTIN_SIGNATURES of the combined Arduino sketch (unnamed/part_004)
SKETCH_BUILTIN_SIGNATURES ==
  <<
    \* 'AirTag (Registered)'  (part_004:199)
    [ name |-> << 65, 105, 114, 84, 97, 103, 32, 40, 82, 101, 103, 105, 115, 116, 101, 114, 101, 100, 41 >>,
      category |-> CAT_TRACKER, company_id |-> 76,
      payload_pattern |-> << 76, 0, 7, 25, 0, 0, 0, 0 >>,
      pattern_length |-> 4, pattern_offset |-> 0, service_uuid |-> 0,
      threat_level |-> THREAT_SEVERE, flags |-> SIG_FLAG_COMPANY_ID + SIG_FLAG_PAYLOAD + SIG_FLAG_TRANSMITTABLE ],
    \* 'AirTag (Unregistered)'  (part_004:200)
    [ name |-> << 65, 105, 114, 84, 97, 103, 32, 40, 85, 110, 114, 101, 103, 105, 115, 116, 101, 114, 101, 100, 41 >>,
      category |-> CAT_TRACKER, company_id |-> 76,
      payload_pattern |-> << 76, 0, 18, 25, 0, 0, 0, 0 >>,
      pattern_length |-> 4, pattern_offset |-> 0, service_uuid |-> 0,
      threat_level |-> THREAT_SEVERE, flags |-> SIG_FLAG_COMPANY_ID + SIG_FLAG_PAYLOAD + SIG_FLAG_TRANSMITTABLE ],
    \* 'Samsung SmartTag'  (part_004:201)
    [ name |-> << 83, 97, 109, 115, 117, 110, 103, 32, 83, 109, 97, 114, 116, 84, 97, 103 >>,
      category |-> CAT_TRACKER, company_id |-> 117,
      payload_pattern |-> << 117, 0, 66, 9, 1, 0, 0, 0 >>,
      pattern_length |-> 5, pattern_offset |-> 0, service_uuid |-> 0,
      threat_level |-> THREAT_SEVERE, flags |-> SIG_FLAG_COMPANY_ID + SIG_FLAG_PAYLOAD + SIG_FLAG_TRANSMITTABLE ],
    \* 'Samsung SmartTag2'  (part_004:202)
    [ name |-> << 83, 97, 109, 115, 117, 110, 103, 32, 83, 109, 97, 114, 116, 84, 97, 103, 50 >>,
      category |-> CAT_TRACKER, company_id |-> 117,
      payload_pattern |-> << 117, 0, 66, 9, 2, 0, 0, 0 >>,
      pattern_length |-> 5, pattern_offset |-> 0, service_uuid |-> 0,
      threat_level |-> THREAT_SEVERE, flags |-> SIG_FLAG_COMPANY_ID + SIG_FLAG_PAYLOAD + SIG_FLAG_TRANSMITTABLE ],
    \* 'Tile Tracker'  (part_004:203)
    [ name |-> << 84, 105, 108, 101, 32, 84, 114, 97, 99, 107, 101, 114 >>,
      category |-> CAT_TRACKER, company_id |-> 65260,
      payload_pattern |-> << 236, 254, 0, 0, 0, 0, 0, 0 >>,
      pattern_length |-> 2, pattern_offset |-> -1, service_uuid |-> 0,
      threat_level |-> THREAT_SEVERE, flags |-> SIG_FLAG_COMPANY_ID + SIG_FLAG_PAYLOAD + SIG_FLAG_TRANSMITTABLE ],
    \* 'Tile (Alt)'  (part_004:204)
    [ name |-> << 84, 105, 108, 101, 32, 40, 65, 108, 116, 41 >>,
      category |-> CAT_TRACKER, company_id |-> 65261,
      payload_pattern |-> << 237, 254, 0, 0, 0, 0, 0, 0 >>,
      pattern_length |-> 2, pattern_offset |-> -1, service_uuid |-> 0,
      threat_level |-> THREAT_SEVERE, flags |-> SIG_FLAG_COMPANY_ID + SIG_FLAG_PAYLOAD + SIG_FLAG_TRANSMITTABLE ],
    \* 'Chipolo'  (part_004:205)
    [ name |-> << 67, 104, 105, 112, 111, 108, 111 >>,
      category |-> CAT_TRACKER, company_id |-> 65125,
      payload_pattern |-> << 101, 254, 0, 0, 0, 0, 0, 0 >>,
      pattern_length |-> 2, pattern_offset |-> -1, service_uuid |-> 0,
      threat_level |-> THREAT_SEVERE, flags |-> SIG_FLAG_COMPANY_ID + SIG_FLAG_PAYLOAD + SIG_FLAG_TRANSMITTABLE ],
    \* 'Google Tracker'  (part_004:206)
    [ name |-> << 71, 111, 111, 103, 108, 101, 32, 84, 114, 97, 99, 107, 101, 114 >>,
      category |-> CAT_TRACKER, company_id |-> 224,
      payload_pattern |-> << 0, 0, 0, 0, 0, 0, 0, 0 >>,
      pattern_length |-> 0, pattern_offset |-> -1, service_uuid |-> 65068,
      threat_level |-> THREAT_SEVERE, flags |-> SIG_FLAG_COMPANY_ID + SIG_FLAG_SERVICE_UUID + SIG_FLAG_TRANSMITTABLE ],
    \* 'Eufy Tracker'  (part_004:207)
    [ name |-> << 69, 117, 102, 121, 32, 84, 114, 97, 99, 107, 101, 114 >>,
      category |-> CAT_TRACKER, company_id |-> 1879,
      payload_pattern |-> << 0, 0, 0, 0, 0, 0, 0, 0 >>,
      pattern_length |-> 0, pattern_offset |-> -1, service_uuid |-> 0,
      threat_level |-> THREAT_SEVERE, flags |-> SIG_FLAG_COMPANY_ID + SIG_FLAG_TRANSMITTABLE ],
    \* 'Pebblebee'  (part_004:208)
    [ name |-> << 80, 101, 98, 98, 108, 101, 98, 101, 101 >>,
      category |-> CAT_TRACKER, company_id |-> 2082,
      payload_pattern |-> << 0, 0, 0, 0, 0, 0, 0, 0 >>,
      pattern_length |-> 0, pattern_offset |-> -1, service_uuid |-> 0,
      threat_level |-> THREAT_SEVERE, flags |-> SIG_FLAG_COMPANY_ID + SIG_FLAG_TRANSMITTABLE ],
    \* 'Cube Tracker'  (part_004:209)
    [ name |-> << 67, 117, 98, 101, 32, 84, 114, 97, 99, 107, 101, 114 >>,
      category |-> CAT_TRACKER, company_id |-> 2115,
      payload_pattern |-> << 0, 0, 0, 0, 0, 0, 0, 0 >>,
      pattern_length |-> 0, pattern_offset |-> -1, service_uuid |-> 0,
      threat_level |-> THREAT_SEVERE, flags |-> SIG_FLAG_COMPANY_ID + SIG_FLAG_TRANSMITTABLE ],
    \* 'Meta Ray-Ban'  (part_004:211)
    [ name |-> << 77, 101, 116, 97, 32, 82, 97, 121, 45, 66, 97, 110 >>,
      category |-> CAT_GLASSES, company_id |-> 427,
      payload_pattern |-> << 0, 0, 0, 0, 0, 0, 0, 0 >>,
      pattern_length |-> 0, pattern_offset |-> -1, service_uuid |-> 0,
      threat_level |-> THREAT_CRITICAL, flags |-> SIG_FLAG_COMPANY_ID + SIG_FLAG_TRANSMITTABLE ],
    \* 'Meta Ray-Ban (Tech)'  (part_004:212)
    [ name |-> << 77, 101, 116, 97, 32, 82, 97, 121, 45, 66, 97, 110, 32, 40, 84, 101, 99, 104, 41 >>,
      category |-> CAT_GLASSES, company_id |-> 1422,
      payload_pattern |-> << 0, 0, 0, 0, 0, 0, 0, 0 >>,
      pattern_length |-> 0, pattern_offset |-> -1, service_uuid |-> 0,
      threat_level |-> THREAT_CRITICAL, flags |-> SIG_FLAG_COMPANY_ID + SIG_FLAG_TRANSMITTABLE ],
    \* 'Meta Ray-Ban (Luxottica)'  (part_004:213)
    [ name |-> << 77, 101, 116, 97, 32, 82, 97, 121, 45, 66, 97, 110, 32, 40, 76, 117, 120, 111, 116, 116, 105, 99, 97, 41 >>,
      category |-> CAT_GLASSES, company_id |-> 3411,
      payload_pattern |-> << 0, 0, 0, 0, 0, 0, 0, 0 >>,
      pattern_length |-> 0, pattern_offset |-> -1, service_uuid |-> 0,
      threat_level |-> THREAT_CRITICAL, flags |-> SIG_FLAG_COMPANY_ID + SIG_FLAG_TRANSMITTABLE ],
    \* 'Snap Spectacles'  (part_004:214)
    [ name |-> << 83, 110, 97, 112, 32, 83, 112, 101, 99, 116, 97, 99, 108, 101, 115 >>,
      category |-> CAT_GLASSES, company_id |-> 962,
      payload_pattern |-> << 0, 0, 0, 0, 0, 0, 0, 0 >>,
      pattern_length |-> 0, pattern_offset |-> -1, service_uuid |-> 0,
      threat_level |-> THREAT_CRITICAL, flags |-> SIG_FLAG_COMPANY_ID + SIG_FLAG_TRANSMITTABLE ],
    \* 'Amazon Echo Frames'  (part_004:215)
    [ name |-> << 65, 109, 97, 122, 111, 110, 32, 69, 99, 104, 111, 32, 70, 114, 97, 109, 101, 115 >>,
      category |-> CAT_GLASSES, company_id |-> 369,
      payload_pattern |-> << 0, 0, 0, 0, 0, 0, 0, 0 >>,
      pattern_length |-> 0, pattern_offset |-> -1, service_uuid |-> 0,
      threat_level |-> THREAT_HIGH, flags |-> SIG_FLAG_COMPANY_ID + SIG_FLAG_TRANSMITTABLE ],
    \* 'Bose Frames'  (part_004:216)
    [ name |-> << 66, 111, 115, 101, 32, 70, 114, 97, 109, 101, 115 >>,
      category |-> CAT_GLASSES, company_id |-> 158,
      payload_pattern |-> << 0, 0, 0, 0, 0, 0, 0, 0 >>,
      pattern_length |-> 0, pattern_offset |-> -1, service_uuid |-> 0,
      threat_level |-> THREAT_MEDIUM, flags |-> SIG_FLAG_COMPANY_ID + SIG_FLAG_TRANSMITTABLE ],
    \* 'Vuzix Blade'  (part_004:217)
    [ name |-> << 86, 117, 122, 105, 120, 32, 66, 108, 97, 100, 101 >>,
      category |-> CAT_GLASSES, company_id |-> 1914,
      payload_pattern |-> << 0, 0, 0, 0, 0, 0, 0, 0 >>,
      pattern_length |-> 0, pattern_offset |-> -1, service_uuid |-> 0,
      threat_level |-> THREAT_CRITICAL, flags |-> SIG_FLAG_COMPANY_ID + SIG_FLAG_TRANSMITTABLE ],
    \* 'XREAL Air'  (part_004:218)
    [ name |-> << 88, 82, 69, 65, 76, 32, 65, 105, 114 >>,
      category |-> CAT_GLASSES, company_id |-> 2580,
      payload_pattern |-> << 0, 0, 0, 0, 0, 0, 0, 0 >>,
      pattern_length |-> 0, pattern_offset |-> -1, service_uuid |-> 0,
      threat_level |-> THREAT_HIGH, flags |-> SIG_FLAG_COMPANY_ID + SIG_FLAG_TRANSMITTABLE ],
    \* 'TCL RayNeo'  (part_004:219)
    [ name |-> << 84, 67, 76, 32, 82, 97, 121, 78, 101, 111 >>,
      category |-> CAT_GLASSES, company_id |-> 2450,
      payload_pattern |-> << 0, 0, 0, 0, 0, 0, 0, 0 >>,
      pattern_length |-> 0, pattern_offset |-> -1, service_uuid |-> 0,
      threat_level |-> THREAT_HIGH, flags |-> SIG_FLAG_COMPANY_ID + SIG_FLAG_TRANSMITTABLE ],
    \* 'Dexcom G6/G7'  (part_004:221)
    [ name |-> << 68, 101, 120, 99, 111, 109, 32, 71, 54, 47, 71, 55 >>,
      category |-> CAT_MEDICAL, company_id |-> 209,
      payload_pattern |-> << 0, 0, 0, 0, 0, 0, 0, 0 >>,
      pattern_length |-> 0, pattern_offset |-> -1, service_uuid |-> 65212,
      threat_level |-> THREAT_MEDIUM, flags |-> SIG_FLAG_COMPANY_ID + SIG_FLAG_SERVICE_UUID + SIG_FLAG_MEDICAL ],
    \* 'Medtronic Pump'  (part_004:222)
    [ name |-> << 77, 101, 100, 116, 114, 111, 110, 105, 99, 32, 80, 117, 109, 112 >>,
      category |-> CAT_MEDICAL, company_id |-> 677,
      payload_pattern |-> << 0, 0, 0, 0, 0, 0, 0, 0 >>,
      pattern_length |-> 0, pattern_offset |-> -1, service_uuid |-> 0,
      threat_level |-> THREAT_MEDIUM, flags |-> SIG_FLAG_COMPANY_ID + SIG_FLAG_MEDICAL ],
    \* 'Omnipod'  (part_004:223)
    [ name |-> << 79, 109, 110, 105, 112, 111, 100 >>,
      category |-> CAT_MEDICAL, company_id |-> 2082,
      payload_pattern |-> << 0, 0, 0, 0, 0, 0, 0, 0 >>,
      pattern_length |-> 0, pattern_offset |-> -1, service_uuid |-> 6192,
      threat_level |-> THREAT_MEDIUM, flags |-> SIG_FLAG_COMPANY_ID + SIG_FLAG_SERVICE_UUID + SIG_FLAG_MEDICAL ],
    \* 'Abbott FreeStyle'  (part_004:224)
    [ name |-> << 65, 98, 98, 111, 116, 116, 32, 70, 114, 101, 101, 83, 116, 121, 108, 101 >>,
      category |-> CAT_MEDICAL, company_id |-> 1560,
      payload_pattern |-> << 0, 0, 0, 0, 0, 0, 0, 0 >>,
      pattern_length |-> 0, pattern_offset |-> -1, service_uuid |-> 0,
      threat_level |-> THREAT_MEDIUM, flags |-> SIG_FLAG_COMPANY_ID + SIG_FLAG_MEDICAL ],
    \* 'Tandem t:slim'  (part_004:225)
    [ name |-> << 84, 97, 110, 100, 101, 109, 32, 116, 58, 115, 108, 105, 109 >>,
      category |-> CAT_MEDICAL, company_id |-> 2049,
      payload_pattern |-> << 0, 0, 0, 0, 0, 0, 0, 0 >>,
      pattern_length |-> 0, pattern_offset |-> -1, service_uuid |-> 0,
      threat_level |-> THREAT_MEDIUM, flags |-> SIG_FLAG_COMPANY_ID + SIG_FLAG_MEDICAL ],
    \* 'Senseonics Eversense'  (part_004:226)
    [ name |-> << 83, 101, 110, 115, 101, 111, 110, 105, 99, 115, 32, 69, 118, 101, 114, 115, 101, 110, 115, 101 >>,
      category |-> CAT_MEDICAL, company_id |-> 2017,
      payload_pattern |-> << 0, 0, 0, 0, 0, 0, 0, 0 >>,
      pattern_length |-> 0, pattern_offset |-> -1, service_uuid |-> 0,
      threat_level |-> THREAT_MEDIUM, flags |-> SIG_FLAG_COMPANY_ID + SIG_FLAG_MEDICAL ],
    \* 'Ascensia Contour'  (part_004:227)
    [ name |-> << 65, 115, 99, 101, 110, 115, 105, 97, 32, 67, 111, 110, 116, 111, 117, 114 >>,
      category |-> CAT_MEDICAL, company_id |-> 1794,
      payload_pattern |-> << 0, 0, 0, 0, 0, 0, 0, 0 >>,
      pattern_length |-> 0, pattern_offset |-> -1, service_uuid |-> 6152,
      threat_level |-> THREAT_MEDIUM, flags |-> SIG_FLAG_COMPANY_ID + SIG_FLAG_SERVICE_UUID + SIG_FLAG_MEDICAL ],
    \* 'Roche Accu-Chek'  (part_004:228)
    [ name |-> << 82, 111, 99, 104, 101, 32, 65, 99, 99, 117, 45, 67, 104, 101, 107 >>,
      category |-> CAT_MEDICAL, company_id |-> 119,
      payload_pattern |-> << 0, 0, 0, 0, 0, 0, 0, 0 >>,
      pattern_length |-> 0, pattern_offset |-> -1, service_uuid |-> 6152,
      threat_level |-> THREAT_MEDIUM, flags |-> SIG_FLAG_COMPANY_ID + SIG_FLAG_SERVICE_UUID + SIG_FLAG_MEDICAL ],
    \* 'Ypsomed mylife'  (part_004:229)
    [ name |-> << 89, 112, 115, 111, 109, 101, 100, 32, 109, 121, 108, 105, 102, 101 >>,
      category |-> CAT_MEDICAL, company_id |-> 2228,
      payload_pattern |-> << 0, 0, 0, 0, 0, 0, 0, 0 >>,
      pattern_length |-> 0, pattern_offset |-> -1, service_uuid |-> 0,
      threat_level |-> THREAT_MEDIUM, flags |-> SIG_FLAG_COMPANY_ID + SIG_FLAG_MEDICAL ],
    \* 'Bigfoot Unity'  (part_004:230)
    [ name |-> << 66, 105, 103, 102, 111, 111, 116, 32, 85, 110, 105, 116, 121 >>,
      category |-> CAT_MEDICAL, company_id |-> 2363,
      payload_pattern |-> << 0, 0, 0, 0, 0, 0, 0, 0 >>,
      pattern_length |-> 0, pattern_offset |-> -1, service_uuid |-> 0,
      threat_level |-> THREAT_MEDIUM, flags |-> SIG_FLAG_COMPANY_ID + SIG_FLAG_MEDICAL ],
    \* 'Beta Bionics iLet'  (part_004:231)
    [ name |-> << 66, 101, 116, 97, 32, 66, 105, 111, 110, 105, 99, 115, 32, 105, 76, 101, 116 >>,
      category |-> CAT_MEDICAL, company_id |-> 2404,
      payload_pattern |-> << 0, 0, 0, 0, 0, 0, 0, 0 >>,
      pattern_length |-> 0, pattern_offset |-> -1, service_uuid |-> 0,
      threat_level |-> THREAT_MEDIUM, flags |-> SIG_FLAG_COMPANY_ID + SIG_FLAG_MEDICAL ],
    \* 'LifeScan OneTouch'  (part_004:232)
    [ name |-> << 76, 105, 102, 101, 83, 99, 97, 110, 32, 79, 110, 101, 84, 111, 117, 99, 104 >>,
      category |-> CAT_MEDICAL, company_id |-> 1008,
      payload_pattern |-> << 0, 0, 0, 0, 0, 0, 0, 0 >>,
      pattern_length |-> 0, pattern_offset |-> -1, service_uuid |-> 6152,
      threat_level |-> THREAT_MEDIUM, flags |-> SIG_FLAG_COMPANY_ID + SIG_FLAG_SERVICE_UUID + SIG_FLAG_MEDICAL ],
    \* 'Biotronik Cardiac'  (part_004:234)
    [ name |-> << 66, 105, 111, 116, 114, 111, 110, 105, 107, 32, 67, 97, 114, 100, 105, 97, 99 >>,
      category |-> CAT_MEDICAL, company_id |-> 163,
      payload_pattern |-> << 0, 0, 0, 0, 0, 0, 0, 0 >>,
      pattern_length |-> 0, pattern_offset |-> -1, service_uuid |-> 0,
      threat_level |-> THREAT_MEDIUM, flags |-> SIG_FLAG_COMPANY_ID + SIG_FLAG_MEDICAL ],
    \* 'Boston Scientific'  (part_004:235)
    [ name |-> << 66, 111, 115, 116, 111, 110, 32, 83, 99, 105, 101, 110, 116, 105, 102, 105, 99 >>,
      category |-> CAT_MEDICAL, company_id |-> 329,
      payload_pattern |-> << 0, 0, 0, 0, 0, 0, 0, 0 >>,
      pattern_length |-> 0, pattern_offset |-> -1, service_uuid |-> 0,
      threat_level |-> THREAT_MEDIUM, flags |-> SIG_FLAG_COMPANY_ID + SIG_FLAG_MEDICAL ],
    \* 'AliveCor Kardia'  (part_004:236)
    [ name |-> << 65, 108, 105, 118, 101, 67, 111, 114, 32, 75, 97, 114, 100, 105, 97 >>,
      category |-> CAT_MEDICAL, company_id |-> 1051,
      payload_pattern |-> << 0, 0, 0, 0, 0, 0, 0, 0 >>,
      pattern_length |-> 0, pattern_offset |-> -1, service_uuid |-> 0,
      threat_level |-> THREAT_MEDIUM, flags |-> SIG_FLAG_COMPANY_ID + SIG_FLAG_MEDICAL ],
    \* 'Zoll LifeVest'  (part_004:237)
    [ name |-> << 90, 111, 108, 108, 32, 76, 105, 102, 101, 86, 101, 115, 116 >>,
      category |-> CAT_MEDICAL, company_id |-> 1393,
      payload_pattern |-> << 0, 0, 0, 0, 0, 0, 0, 0 >>,
      pattern_length |-> 0, pattern_offset |-> -1, service_uuid |-> 0,
      threat_level |-> THREAT_MEDIUM, flags |-> SIG_FLAG_COMPANY_ID + SIG_FLAG_MEDICAL ],
    \* 'ResMed CPAP'  (part_004:239)
    [ name |-> << 82, 101, 115, 77, 101, 100, 32, 67, 80, 65, 80 >>,
      category |-> CAT_MEDICAL, company_id |-> 693,
      payload_pattern |-> << 0, 0, 0, 0, 0, 0, 0, 0 >>,
      pattern_length |-> 0, pattern_offset |-> -1, service_uuid |-> 0,
      threat_level |-> THREAT_MEDIUM, flags |-> SIG_FLAG_COMPANY_ID + SIG_FLAG_MEDICAL ],
    \* 'Philips CPAP'  (part_004:240)
    [ name |-> << 80, 104, 105, 108, 105, 112, 115, 32, 67, 80, 65, 80 >>,
      category |-> CAT_MEDICAL, company_id |-> 48,
      payload_pattern |-> << 0, 0, 0, 0, 0, 0, 0, 0 >>,
      pattern_length |-> 0, pattern_offset |-> -1, service_uuid |-> 0,
      threat_level |-> THREAT_MEDIUM, flags |-> SIG_FLAG_COMPANY_ID + SIG_FLAG_MEDICAL ],
    \* 'Withings Health'  (part_004:241)
    [ name |-> << 87, 105, 116, 104, 105, 110, 103, 115, 32, 72, 101, 97, 108, 116, 104 >>,
      category |-> CAT_MEDICAL, company_id |-> 1507,
      payload_pattern |-> << 0, 0, 0, 0, 0, 0, 0, 0 >>,
      pattern_length |-> 0, pattern_offset |-> -1, service_uuid |-> 0,
      threat_level |-> THREAT_LOW, flags |-> SIG_FLAG_COMPANY_ID + SIG_FLAG_MEDICAL ],
    \* 'Omron BP Monitor'  (part_004:242)
    [ name |-> << 79, 109, 114, 111, 110, 32, 66, 80, 32, 77, 111, 110, 105, 116, 111, 114 >>,
      category |-> CAT_MEDICAL, company_id |-> 526,
      payload_pattern |-> << 0, 0, 0, 0, 0, 0, 0, 0 >>,
      pattern_length |-> 0, pattern_offset |-> -1, service_uuid |-> 6160,
      threat_level |-> THREAT_LOW, flags |-> SIG_FLAG_COMPANY_ID + SIG_FLAG_SERVICE_UUID + SIG_FLAG_MEDICAL ],
    \* 'Qardio Heart Health'  (part_004:243)
    [ name |-> << 81, 97, 114, 100, 105, 111, 32, 72, 101, 97, 114, 116, 32, 72, 101, 97, 108, 116, 104 >>,
      category |-> CAT_MEDICAL, company_id |-> 1045,
      payload_pattern |-> << 0, 0, 0, 0, 0, 0, 0, 0 >>,
      pattern_length |-> 0, pattern_offset |-> -1, service_uuid |-> 0,
      threat_level |-> THREAT_LOW, flags |-> SIG_FLAG_COMPANY_ID + SIG_FLAG_MEDICAL ],
    \* 'iHealth Devices'  (part_004:244)
    [ name |-> << 105, 72, 101, 97, 108, 116, 104, 32, 68, 101, 118, 105, 99, 101, 115 >>,
      category |-> CAT_MEDICAL, company_id |-> 705,
      payload_pattern |-> << 0, 0, 0, 0, 0, 0, 0, 0 >>,
      pattern_length |-> 0, pattern_offset |-> -1, service_uuid |-> 0,
      threat_level |-> THREAT_LOW, flags |-> SIG_FLAG_COMPANY_ID + SIG_FLAG_MEDICAL ],
    \* 'Fitbit'  (part_004:246)
    [ name |-> << 70, 105, 116, 98, 105, 116 >>,
      category |-> CAT_WEARABLE, company_id |-> 548,
      payload_pattern |-> << 0, 0, 0, 0, 0, 0, 0, 0 >>,
      pattern_length |-> 0, pattern_offset |-> -1, service_uuid |-> 0,
      threat_level |-> THREAT_LOW, flags |-> SIG_FLAG_COMPANY_ID ],
    \* 'Garmin Watch'  (part_004:247)
    [ name |-> << 71, 97, 114, 109, 105, 110, 32, 87, 97, 116, 99, 104 >>,
      category |-> CAT_WEARABLE, company_id |-> 135,
      payload_pattern |-> << 0, 0, 0, 0, 0, 0, 0, 0 >>,
      pattern_length |-> 0, pattern_offset |-> -1, service_uuid |-> 0,
      threat_level |-> THREAT_LOW, flags |-> SIG_FLAG_COMPANY_ID ],
    \* 'Whoop Band'  (part_004:248)
    [ name |-> << 87, 104, 111, 111, 112, 32, 66, 97, 110, 100 >>,
      category |-> CAT_WEARABLE, company_id |-> 1603,
      payload_pattern |-> << 0, 0, 0, 0, 0, 0, 0, 0 >>,
      pattern_length |-> 0, pattern_offset |-> -1, service_uuid |-> 0,
      threat_level |-> THREAT_LOW, flags |-> SIG_FLAG_COMPANY_ID ],
    \* 'Oura Ring'  (part_004:249)
    [ name |-> << 79, 117, 114, 97, 32, 82, 105, 110, 103 >>,
      category |-> CAT_WEARABLE, company_id |-> 1921,
      payload_pattern |-> << 0, 0, 0, 0, 0, 0, 0, 0 >>,
      pattern_length |-> 0, pattern_offset |-> -1, service_uuid |-> 0,
      threat_level |-> THREAT_LOW, flags |-> SIG_FLAG_COMPANY_ID ],
    \* 'Polar Watch'  (part_004:250)
    [ name |-> << 80, 111, 108, 97, 114, 32, 87, 97, 116, 99, 104 >>,
      category |-> CAT_WEARABLE, company_id |-> 107,
      payload_pattern |-> << 0, 0, 0, 0, 0, 0, 0, 0 >>,
      pattern_length |-> 0, pattern_offset |-> -1, service_uuid |-> 0,
      threat_level |-> THREAT_LOW, flags |-> SIG_FLAG_COMPANY_ID ],
    \* 'Suunto Watch'  (part_004:251)
    [ name |-> << 83, 117, 117, 110, 116, 111, 32, 87, 97, 116, 99, 104 >>,
      category |-> CAT_WEARABLE, company_id |-> 104,
      payload_pattern |-> << 0, 0, 0, 0, 0, 0, 0, 0 >>,
      pattern_length |-> 0, pattern_offset |-> -1, service_uuid |-> 0,
      threat_level |-> THREAT_LOW, flags |-> SIG_FLAG_COMPANY_ID ],
    \* 'Xiaomi Mi Band'  (part_004:252)
    [ name |-> << 88, 105, 97, 111, 109, 105, 32, 77, 105, 32, 66, 97, 110, 100 >>,
      category |-> CAT_WEARABLE, company_id |-> 911,
      payload_pattern |-> << 0, 0, 0, 0, 0, 0, 0, 0 >>,
      pattern_length |-> 0, pattern_offset |-> -1, service_uuid |-> 0,
      threat_level |-> THREAT_LOW, flags |-> SIG_FLAG_COMPANY_ID ],
    \* 'Amazfit Watch'  (part_004:253)
    [ name |-> << 65, 109, 97, 122, 102, 105, 116, 32, 87, 97, 116, 99, 104 >>,
      category |-> CAT_WEARABLE, company_id |-> 343,
      payload_pattern |-> << 0, 0, 0, 0, 0, 0, 0, 0 >>,
      pattern_length |-> 0, pattern_offset |-> -1, service_uuid |-> 0,
      threat_level |-> THREAT_LOW, flags |-> SIG_FLAG_COMPANY_ID ],
    \* 'Huawei Watch'  (part_004:254)
    [ name |-> << 72, 117, 97, 119, 101, 105, 32, 87, 97, 116, 99, 104 >>,
      category |-> CAT_WEARABLE, company_id |-> 637,
      payload_pattern |-> << 0, 0, 0, 0, 0, 0, 0, 0 >>,
      pattern_length |-> 0, pattern_offset |-> -1, service_uuid |-> 0,
      threat_level |-> THREAT_LOW, flags |-> SIG_FLAG_COMPANY_ID ],
    \* 'Sony Audio'  (part_004:256)
    [ name |-> << 83, 111, 110, 121, 32, 65, 117, 100, 105, 111 >>,
      category |-> CAT_AUDIO, company_id |-> 301,
      payload_pattern |-> << 0, 0, 0, 0, 0, 0, 0, 0 >>,
      pattern_length |-> 0, pattern_offset |-> -1, service_uuid |-> 0,
      threat_level |-> THREAT_LOW, flags |-> SIG_FLAG_COMPANY_ID ],
    \* 'Bose Audio'  (part_004:257)
    [ name |-> << 66, 111, 115, 101, 32, 65, 117, 100, 105, 111 >>,
      category |-> CAT_AUDIO, company_id |-> 158,
      payload_pattern |-> << 0, 0, 0, 0, 0, 0, 0, 0 >>,
      pattern_length |-> 0, pattern_offset |-> -1, service_uuid |-> 0,
      threat_level |-> THREAT_LOW, flags |-> SIG_FLAG_COMPANY_ID ],
    \* 'Jabra Headset'  (part_004:258)
    [ name |-> << 74, 97, 98, 114, 97, 32, 72, 101, 97, 100, 115, 101, 116 >>,
      category |-> CAT_AUDIO, company_id |-> 103,
      payload_pattern |-> << 0, 0, 0, 0, 0, 0, 0, 0 >>,
      pattern_length |-> 0, pattern_offset |-> -1, service_uuid |-> 0,
      threat_level |-> THREAT_LOW, flags |-> SIG_FLAG_COMPANY_ID ],
    \* 'JBL Audio'  (part_004:259)
    [ name |-> << 74, 66, 76, 32, 65, 117, 100, 105, 111 >>,
      category |-> CAT_AUDIO, company_id |-> 87,
      payload_pattern |-> << 0, 0, 0, 0, 0, 0, 0, 0 >>,
      pattern_length |-> 0, pattern_offset |-> -1, service_uuid |-> 0,
      threat_level |-> THREAT_LOW, flags |-> SIG_FLAG_COMPANY_ID ],
    \* 'Plantronics'  (part_004:260)
    [ name |-> << 80, 108, 97, 110, 116, 114, 111, 110, 105, 99, 115 >>,
      category |-> CAT_AUDIO, company_id |-> 85,
      payload_pattern |-> << 0, 0, 0, 0, 0, 0, 0, 0 >>,
      pattern_length |-> 0, pattern_offset |-> -1, service_uuid |-> 0,
      threat_level |-> THREAT_LOW, flags |-> SIG_FLAG_COMPANY_ID ],
    \* 'Skullcandy'  (part_004:261)
    [ name |-> << 83, 107, 117, 108, 108, 99, 97, 110, 100, 121 >>,
      category |-> CAT_AUDIO, company_id |-> 672,
      payload_pattern |-> << 0, 0, 0, 0, 0, 0, 0, 0 >>,
      pattern_length |-> 0, pattern_offset |-> -1, service_uuid |-> 0,
      threat_level |-> THREAT_LOW, flags |-> SIG_FLAG_COMPANY_ID ],
    \* 'Bang & Olufsen'  (part_004:262)
    [ name |-> << 66, 97, 110, 103, 32, 38, 32, 79, 108, 117, 102, 115, 101, 110 >>,
      category |-> CAT_AUDIO, company_id |-> 89,
      payload_pattern |-> << 0, 0, 0, 0, 0, 0, 0, 0 >>,
      pattern_length |-> 0, pattern_offset |-> -1, service_uuid |-> 0,
      threat_level |-> THREAT_LOW, flags |-> SIG_FLAG_COMPANY_ID ]
  >>
SKETCH_BUILTIN_SIGNATURE_COUNT == Len(SKETCH_BUILTIN_SIGNATURES)

\* ---------------------------------------------------------------------------
\* C library and bit operations used by the code
\* ---------------------------------------------------------------------------
Min(a, b) == IF a < b THEN a ELSE b

\* flags & f, for a single-bit mask f
HasFlag(flags, f) == (flags \div f) % 2 = 1

\* a & b on 8-bit values
RECURSIVE BitAnd8(_, _, _)
BitAnd8(a, b, n) ==
  IF n = 0 THEN 0
  ELSE (a % 2) * (b % 2) + 2 * BitAnd8(a \div 2, b \div 2, n - 1)

\* a ^ b on 8-bit values
RECURSIVE BitXor8(_, _, _)
BitXor8(a, b, n) ==
  IF n = 0 THEN 0
  ELSE ((a + b) % 2) + 2 * BitXor8(a \div 2, b \div 2, n - 1)

tolower(c) == IF c >= 65 /\ c <= 90 THEN c + 32 ELSE c

\* strcasecmp(a, b): 0 iff the strings are equal ignoring letter case
strcasecmp(a, b) ==
  IF Len(a) = Len(b) /\ \A i \in 1..Len(a) : tolower(a[i]) = tolower(b[i])
  THEN 0 ELSE 1

\* strcasestr(hay, needle): position (from 1) of the first occurrence of
\* needle in hay ignoring letter case, 0 for nullptr
strcasestr(hay, needle) ==
  LET occ == { i \in 1..(Len(hay) - Len(needle) + 1) :
                 \A j \in 1..Len(needle) : tolower(hay[i + j - 1]) = tolower(needle[j]) }
  IN IF occ = {} THEN 0 ELSE CHOOSE i \in occ : \A k \in occ : i <= k

\* strncpy(dst, src, sizeof(dst) - 1) into a zeroed char[32]
strncpy31(s) == SubSeq(s, 1, Min(Len(s), 31))

\* memcmp(buf + off, pat, n) == 0   (off counted from 0)
memcmp_eq(buf, off, pat, n) == \A k \in 1..n : buf[off + k] = pat[k]

\* ---------------------------------------------------------------------------
\* matchSignature (main.cpp)
\* ---------------------------------------------------------------------------
NoMfgData == [hasMfgData |-> FALSE, mfgCompanyId |-> 0]

\* ParseMfgData reading the company id high byte first
RECURSIVE ParseMfgData_BigEndian(_, _)
ParseMfgData_BigEndian(payload, idx) ==
  IF ~(idx < Len(payload)) THEN NoMfgData
  ELSE LET len == payload[idx + 1] IN
    IF len = 0 \/ idx + len >= Len(payload) THEN NoMfgData
    ELSE IF payload[idx + 2] = 255 /\ len >= 3
      THEN [hasMfgData |-> TRUE,
            mfgCompanyId |-> 256 * payload[idx + 3] + payload[idx + 4]]
      ELSE ParseMfgData_BigEndian(payload, idx + len + 1)

\* ParseMfgData that also stops at a record ending at the last byte
RECURSIVE ParseMfgData_StopAtLast(_, _)
ParseMfgData_StopAtLast(payload, idx) ==
  IF ~(idx < Len(payload)) THEN NoMfgData
  ELSE LET len == payload[idx + 1] IN
    IF len = 0 \/ idx + len + 1 >= Len(payload) THEN NoMfgData
    ELSE IF payload[idx + 2] = 255 /\ len >= 3
      THEN [hasMfgData |-> TRUE,
            mfgCompanyId |-> payload[idx + 3] + 256 * payload[idx + 4]]
      ELSE ParseMfgData_StopAtLast(payload, idx + len + 1)

\* the offsets (from 0) of the bytes of payload that the while loop of lines
\* 180-193 reads, entered with idx
RECURSIVE ParseReads(_, _)
ParseReads(payload, idx) ==
  IF ~(idx < Len(payload)) THEN {}
  ELSE LET len == payload[idx + 1] IN
    { idx } \cup
    (IF len = 0 \/ idx + len >= Len(payload) THEN {}
     ELSE { idx + 1 } \cup
          (IF payload[idx + 2] = 255 /\ len >= 3
           THEN { idx + 2, idx + 3 }
           ELSE ParseReads(payload, idx + len + 1)))

\* the while loop of lines 180-193, entered with idx
RECURSIVE ParseMfgData(_, _)
ParseMfgData(payload, idx) ==
  IF ~(idx < Len(payload)) THEN NoMfgData
  ELSE LET len == payload[idx + 1] IN
    IF len = 0 \/ idx + len >= Len(payload) THEN NoMfgData
    ELSE IF payload[idx + 2] = 255 /\ len >= 3
      THEN [hasMfgData |-> TRUE,
            mfgCompanyId |-> payload[idx + 3] + 256 * payload[idx + 4]]
      ELSE ParseMfgData(payload, idx + len + 1)

\* CompanyMatched that does not look at the COMPANY_ID flag
CompanyMatched_AnyFlags(sig, mfg) ==
  /\ mfg.hasMfgData
  /\ sig.company_id = mfg.mfgCompanyId

\* lines 201-205
CompanyMatched(sig, mfg) ==
  /\ HasFlag(sig.flags, SIG_FLAG_COMPANY_ID)
  /\ mfg.hasMfgData
  /\ sig.company_id = mfg.mfgCompanyId

\* lines 209-230
PatternFound(sig, payload) ==
  IF sig.pattern_offset >= 0
  THEN /\ sig.pattern_offset + sig.pattern_length <= Len(payload)
       /\ memcmp_eq(payload, sig.pattern_offset, sig.payload_pattern, sig.pattern_length)
  ELSE \E j \in 0..(Len(payload) - sig.pattern_length) :
          memcmp_eq(payload, j, sig.payload_pattern, sig.pattern_length)

\* SigMatched that asks for every field the flags name
SigMatched_AllFields(sig, payload, mfg) ==
  IF HasFlag(sig.flags, SIG_FLAG_PAYLOAD) /\ sig.pattern_length > 0
  THEN CompanyMatched(sig, mfg) /\ PatternFound(sig, payload)
  ELSE CompanyMatched(sig, mfg)

\* SigMatched with EXACT_MATCH ignored
SigMatched_AnyField(sig, payload, mfg) ==
  IF HasFlag(sig.flags, SIG_FLAG_PAYLOAD) /\ sig.pattern_length > 0
  THEN CompanyMatched(sig, mfg) \/ PatternFound(sig, payload)
  ELSE CompanyMatched(sig, mfg)

\* value of `matched` at line 239 for one signature
SigMatched(sig, payload, mfg) ==
  IF HasFlag(sig.flags, SIG_FLAG_PAYLOAD) /\ sig.pattern_length > 0
  THEN IF HasFlag(sig.flags, SIG_FLAG_EXACT_MATCH)
       THEN CompanyMatched(sig, mfg) /\ PatternFound(sig, payload)
       ELSE CompanyMatched(sig, mfg) \/ PatternFound(sig, payload)
  ELSE CompanyMatched(sig, mfg)

\* matchSignatureIn that prefers a signature whose pattern was found
matchSignatureIn_BySpecificity(sigs, payload) ==
  LET mfg == ParseMfgData(payload, 0)
      hits == { i \in 1..Len(sigs) : SigMatched(sigs[i], payload, mfg) }
      best == { i \in hits : /\ HasFlag(sigs[i].flags, SIG_FLAG_PAYLOAD)
                              /\ sigs[i].pattern_length > 0
                              /\ PatternFound(sigs[i], payload) }
      from == IF best = {} THEN hits ELSE best
  IN IF from = {} THEN 0 ELSE CHOOSE i \in from : \A k \in from : i <= k

\* the for loop of lines 196-244 over a signature table: index (from 1) of
\* the signature returned, 0 for nullptr
\* matchSignatureIn that returns the last signature that matched
matchSignatureIn_LastMatch(sigs, payload) ==
  LET mfg == ParseMfgData(payload, 0)
      hits == { i \in 1..Len(sigs) : SigMatched(sigs[i], payload, mfg) }
  IN IF hits = {} THEN 0 ELSE CHOOSE i \in hits : \A k \in hits : i >= k

matchSignatureIn(sigs, payload) ==
  LET mfg == ParseMfgData(payload, 0)
      hits == { i \in 1..Len(sigs) : SigMatched(sigs[i], payload, mfg) }
  IN IF hits = {} THEN 0 ELSE CHOOSE i \in hits : \A k \in hits : i <= k

matchSignature(payload) == matchSignatureIn(BUILTIN_SIGNATURES, payload)

\* ---------------------------------------------------------------------------
\* TXManager::buildAdvertisingData (tx_mgr.cpp)
\* rnd: the values of esp_random() & 0xFF, in call order
\* ---------------------------------------------------------------------------
FlagsRecord == << 2, 1, 6 >>

\* MfgRecord with 24 bytes after the company id
MfgRecord_LongFill(sig, rnd) ==
  IF sig.company_id = 0 THEN << >>
  ELSE << 27, 255, sig.company_id % 256, (sig.company_id \div 256) % 256 >>
       \o [ i \in 1..24 |-> rnd[((i - 1) % 4) + 1] ]

MfgRecord(sig, rnd) ==
  IF sig.company_id = 0 THEN << >>
  ELSE IF sig.pattern_length > 0 /\ sig.pattern_offset = 0
    THEN << (sig.pattern_length + 1) % 256, 255 >>
         \o SubSeq(sig.payload_pattern, 1, sig.pattern_length)
    ELSE LET extraBytes == 4 IN
         << 2 + extraBytes + 1, 255, sig.company_id % 256, (sig.company_id \div 256) % 256 >>
         \o (IF sig.pattern_length > 0 /\ sig.pattern_length <= extraBytes
             THEN SubSeq(sig.payload_pattern, 1, sig.pattern_length)
                  \o SubSeq(rnd, 1, extraBytes - sig.pattern_length)
             ELSE SubSeq(rnd, 1, extraBytes))

\* UuidRecord with the UUID high byte first
UuidRecord_BigEndian(sig) ==
  IF sig.service_uuid = 0 THEN << >>
  ELSE << 3, 3, (sig.service_uuid \div 256) % 256, sig.service_uuid % 256 >>

UuidRecord(sig) ==
  IF sig.service_uuid = 0 THEN << >>
  ELSE << 3, 3, sig.service_uuid % 256, (sig.service_uuid \div 256) % 256 >>

buildAdvertisingData(sig, rnd) == FlagsRecord \o MfgRecord(sig, rnd) \o UuidRecord(sig)

\* ---------------------------------------------------------------------------
\* TXManager::generateRandomMac: raw holds the six esp_random() & 0xFF values
\* ---------------------------------------------------------------------------
generateRandomMac(raw) ==
  LET b0 == raw[1]
      set_la == IF (b0 \div 2) % 2 = 1 THEN b0 ELSE b0 + 2     \* mac[0] |= 0x02
      clr_mc == set_la - (set_la % 2)                          \* mac[0] &= 0xFE
  IN << clr_mc >> \o SubSeq(raw, 2, 6)

\* ---------------------------------------------------------------------------
\* TXManager::findSignatureByName: index into BUILTIN_SIGNATURES, 0 = nullptr
\* ---------------------------------------------------------------------------
\* findSignatureByName with the second pass only
findSignatureByNameIn_OnePass(sigs, name) ==
  LET partial == { i \in 1..Len(sigs) :
                   /\ strcasestr(sigs[i].name, name) # 0
                   /\ HasFlag(sigs[i].flags, SIG_FLAG_TRANSMITTABLE) }
  IN IF partial # {} THEN CHOOSE i \in partial : \A k \in partial : i <= k
     ELSE 0

\* over the catalog sigs
findSignatureByNameIn(sigs, name) ==
  LET exact == { i \in 1..Len(sigs) :
                   /\ strcasecmp(sigs[i].name, name) = 0
                   /\ HasFlag(sigs[i].flags, SIG_FLAG_TRANSMITTABLE) }
      partial == { i \in 1..Len(sigs) :
                   /\ strcasestr(sigs[i].name, name) # 0
                   /\ HasFlag(sigs[i].flags, SIG_FLAG_TRANSMITTABLE) }
  IN IF exact # {} THEN CHOOSE i \in exact : \A k \in exact : i <= k
     ELSE IF partial # {} THEN CHOOSE i \in partial : \A k \in partial : i <= k
     ELSE 0

findSignatureByName(name) == findSignatureByNameIn(BUILTIN_SIGNATURES, name)

\* TXManager::getTransmittableSignature(index): index into sigs, 0 = nullptr
getTransmittableSignatureIn(sigs, index) ==
  LET hit == { i \in 1..Len(sigs) :
                 /\ HasFlag(sigs[i].flags, SIG_FLAG_TRANSMITTABLE)
                 /\ Cardinality({ k \in 1..(i - 1) :
                                     HasFlag(sigs[k].flags, SIG_FLAG_TRANSMITTABLE) }) = index }
  IN IF hit = {} THEN 0 ELSE CHOOSE i \in hit : TRUE

\* TXManager::getTransmittableCount
getTransmittableCountIn(sigs) ==
  Cardinality({ i \in 1..Len(sigs) : HasFlag(sigs[i].flags, SIG_FLAG_TRANSMITTABLE) })

\* ---------------------------------------------------------------------------
\* State
\* ---------------------------------------------------------------------------
VARIABLES
  sessions,           \* TXManager::_sessions[TX_MAX_CONCURRENT]
  confusionEntries,   \* TXManager::_confusionEntries[TX_CONFUSION_MAX_DEVICES]
  confusionActive,    \* TXManager::_confusionActive
  confusionIndex,     \* TXManager::_confusionIndex
  totalPacketsSent,   \* TXManager::_totalPacketsSent
  lastConfuseTime,    \* static lastConfuseTime of TXManager::process
  clock,              \* millis()
  radio,              \* the radio calls made by the last call, in order
  detectedDevices,    \* detectedDevices[0 .. detectedCount-1]; the entries from
                      \* detectedCount on are zero and are never read
  detectedCount,      \* detectedCount
  categoryFilter,     \* categoryFilter
  rssiThreshold,      \* rssiThreshold
  call,               \* the last call made: operation, arguments, return value
  calls,              \* number of calls made since the initial state
  scanning,           \* scanning (main.cpp)
  txActive,           \* txActive (main.cpp)
  lastScanTime,       \* static lastScanTime of loop()
  scanStarted         \* the last loop() iteration called pBLEScan->start

txVars == << sessions, confusionEntries, confusionActive, confusionIndex,
             totalPacketsSent, lastConfuseTime, radio >>
regVars == << detectedDevices, detectedCount, categoryFilter, rssiThreshold >>
loopVars == << scanning, txActive, lastScanTime, scanStarted >>
vars == << sessions, confusionEntries, confusionActive, confusionIndex,
           totalPacketsSent, lastConfuseTime, clock, radio,
           detectedDevices, detectedCount, categoryFilter, rssiThreshold, call, calls,
           scanning, txActive, lastScanTime, scanStarted >>

ZeroSignature ==
  [ name |-> << >>, category |-> 0, company_id |-> 0,
    payload_pattern |-> << 0, 0, 0, 0, 0, 0, 0, 0 >>,
    pattern_length |-> 0, pattern_offset |-> 0, service_uuid |-> 0,
    threat_level |-> 0, flags |-> 0 ]

\* the record kept in `call`
NoCall ==
  [ op |-> "init", name |-> << >>, ret |-> 0, payload |-> << >>, rssi |-> 0,
    mac |-> << >>, idx |-> 0, seed |-> 0, sig |-> ZeroSignature, cmd |-> "",
    other |-> ZeroSignature, pair |-> << >> ]
TxCall(op, name, ret) == [ NoCall EXCEPT !.op = op, !.name = name, !.ret = ret ]

\* uint16_t arithmetic is modulo UINT16.  The uint32_t counters and the
\* millisecond clock stay below 2^31 in every state explored, where unsigned
\* 32-bit arithmetic and integer arithmetic agree.
UINT16 == 65536

\* esp_random() & 0xFF: the n-th byte of the hardware random stream `seed`
RandomByte(seed, n) == (seed * 89 + n * 37 + seed * n * 11) % 256
RandomBytes(seed, from, count) == [ k \in 1..count |-> RandomByte(seed, from + k) ]

\* memset(_sessions, 0, ...)
ZeroSession ==
  [ deviceName |-> << >>, sig |-> 0, intervalMs |-> 0, remainingCount |-> 0,
    packetsSent |-> 0, lastTxTime |-> 0, currentMac |-> << 0, 0, 0, 0, 0, 0 >>,
    randomMacPerPacket |-> FALSE, active |-> FALSE ]

\* memset(_confusionEntries, 0, ...)
ZeroConfusionEntry ==
  [ deviceName |-> << >>, sig |-> 0, instanceCount |-> 0, enabled |-> FALSE ]

\* TXManager::TXManager()
TXManagerInit ==
  /\ sessions = [ i \in 0..(TX_MAX_CONCURRENT - 1) |-> ZeroSession ]
  /\ confusionEntries = [ i \in 0..(TX_CONFUSION_MAX_DEVICES - 1) |-> ZeroConfusionEntry ]
  /\ confusionActive = FALSE
  /\ totalPacketsSent = 0
  /\ confusionIndex = 0
  /\ lastConfuseTime = 0
  /\ radio = << >>

\* ---------------------------------------------------------------------------
\* TX session management
\* ---------------------------------------------------------------------------
\* findFreeSession handing out slot 0 when no slot is free
findFreeSession_ReuseFirst(S) ==
  LET free == { i \in 0..(TX_MAX_CONCURRENT - 1) : ~S[i].active }
  IN IF free = {} THEN 0 ELSE CHOOSE i \in free : \A k \in free : i <= k

\* TXManager::findFreeSession
findFreeSession(S) ==
  LET free == { i \in 0..(TX_MAX_CONCURRENT - 1) : ~S[i].active }
  IN IF free = {} THEN -1 ELSE CHOOSE i \in free : \A k \in free : i <= k

\* TXManager::getActiveCount
getActiveCount(S) == Cardinality({ i \in 0..(TX_MAX_CONCURRENT - 1) : S[i].active })

\* findSession that does not look at the active flag
findSession_AnySlot(S, deviceName) ==
  LET hit == { i \in 0..(TX_MAX_CONCURRENT - 1) :
                 strcasecmp(S[i].deviceName, deviceName) = 0 }
  IN IF hit = {} THEN -1 ELSE CHOOSE i \in hit : \A k \in hit : i <= k

\* TXManager::findSession: slot index, -1 for nullptr
findSession(S, deviceName) ==
  LET hit == { i \in 0..(TX_MAX_CONCURRENT - 1) :
                 S[i].active /\ strcasecmp(S[i].deviceName, deviceName) = 0 }
  IN IF hit = {} THEN -1 ELSE CHOOSE i \in hit : \A k \in hit : i <= k

\* return value of TXManager::startTx
startTxReturnIn(sigs, S, deviceName) ==
  IF findSignatureByNameIn(sigs, deviceName) = 0 THEN -1
  ELSE IF findSession(S, deviceName) # -1 THEN -2
  ELSE IF findFreeSession(S) < 0 THEN -3
  ELSE findFreeSession(S)

startTxReturn(S, deviceName) == startTxReturnIn(BUILTIN_SIGNATURES, S, deviceName)

\* _sessions after TXManager::startTx
startTxSessionsIn(sigs, S, deviceName, intervalMs, count, randomMac, seed) ==
  LET sig == findSignatureByNameIn(sigs, deviceName)
      slot == startTxReturnIn(sigs, S, deviceName)
  IN IF slot < 0 THEN S
     ELSE [ S EXCEPT ![slot] =
              [ deviceName |-> strncpy31(sigs[sig].name),
                sig |-> sig,
                intervalMs |-> intervalMs,
                remainingCount |-> count,
                packetsSent |-> 0,
                lastTxTime |-> 0,
                currentMac |-> generateRandomMac(RandomBytes(seed, 0, 6)),
                randomMacPerPacket |-> randomMac,
                active |-> TRUE ] ]

startTxSessions(S, deviceName, intervalMs, count, randomMac, seed) ==
  startTxSessionsIn(BUILTIN_SIGNATURES, S, deviceName, intervalMs, count, randomMac, seed)

StartTx(deviceName, intervalMs, count, randomMac, seed) ==
  /\ sessions' = startTxSessions(sessions, deviceName, intervalMs, count, randomMac, seed)
  /\ call' = TxCall("startTx", deviceName, startTxReturn(sessions, deviceName))
  /\ radio' = << >>
  /\ UNCHANGED << confusionEntries, confusionActive, confusionIndex, totalPacketsSent,
                  lastConfuseTime, clock, regVars >>

\* stopTx that reports success and leaves the session running
StopTx_KeepActive(deviceName) ==
  /\ call' = TxCall("stopTx", deviceName, IF findSession(sessions, deviceName) = -1 THEN -1 ELSE 0)
  /\ radio' = << >>
  /\ UNCHANGED << sessions, confusionEntries, confusionActive, confusionIndex,
                  totalPacketsSent, lastConfuseTime, clock, regVars >>

\* TXManager::stopTx
StopTx(deviceName) ==
  LET slot == findSession(sessions, deviceName) IN
  /\ sessions' = IF slot = -1 THEN sessions
                 ELSE [ sessions EXCEPT ![slot].active = FALSE ]
  /\ call' = TxCall("stopTx", deviceName, IF slot = -1 THEN -1 ELSE 0)
  /\ radio' = << >>
  /\ UNCHANGED << confusionEntries, confusionActive, confusionIndex, totalPacketsSent,
                  lastConfuseTime, clock, regVars >>

\* stopAll that stops the sessions and leaves confusion mode as it is
StopAll_SessionsOnly ==
  /\ sessions' = [ i \in 0..(TX_MAX_CONCURRENT - 1) |-> [ sessions[i] EXCEPT !.active = FALSE ] ]
  /\ call' = TxCall("stopAll", << >>, 0)
  /\ radio' = << >>
  /\ UNCHANGED << confusionEntries, confusionActive, confusionIndex, totalPacketsSent,
                  lastConfuseTime, clock, regVars >>

\* TXManager::stopAll
StopAll ==
  /\ sessions' = [ i \in 0..(TX_MAX_CONCURRENT - 1) |-> [ sessions[i] EXCEPT !.active = FALSE ] ]
  /\ confusionActive' = FALSE
  /\ call' = TxCall("stopAll", << >>, 0)
  /\ radio' = << >>
  /\ UNCHANGED << confusionEntries, confusionIndex, totalPacketsSent,
                  lastConfuseTime, clock, regVars >>

\* ---------------------------------------------------------------------------
\* Confusion mode
\* ---------------------------------------------------------------------------
AllEntries == 0..(TX_CONFUSION_MAX_DEVICES - 1)

\* TXManager::getConfusionEntryCount
getConfusionEntryCount(E) == Cardinality({ i \in AllEntries : E[i].enabled })

\* confuseAdd that takes a free slot without looking for the name in the list
confuseAddReturnIn_NoLookup(sigs, E, deviceName) ==
  LET sig == findSignatureByNameIn(sigs, deviceName)
      free == { i \in AllEntries : ~E[i].enabled }
  IN IF sig = 0 THEN -1
     ELSE IF free # {} THEN CHOOSE i \in free : \A k \in free : i <= k
     ELSE -2

\* return value of TXManager::confuseAdd
confuseAddReturnIn(sigs, E, deviceName) ==
  LET sig == findSignatureByNameIn(sigs, deviceName)
      same == { i \in AllEntries :
                  /\ sig # 0
                  /\ E[i].enabled
                  /\ strcasecmp(E[i].deviceName, sigs[sig].name) = 0 }
      free == { i \in AllEntries : ~E[i].enabled }
  IN IF sig = 0 THEN -1
     ELSE IF same # {} THEN CHOOSE i \in same : \A k \in same : i <= k
     ELSE IF free # {} THEN CHOOSE i \in free : \A k \in free : i <= k
     ELSE -2

confuseAddReturn(E, deviceName) == confuseAddReturnIn(BUILTIN_SIGNATURES, E, deviceName)

\* _confusionEntries after TXManager::confuseAdd
confuseAddEntriesIn(sigs, E, deviceName, instanceCount) ==
  LET sig == findSignatureByNameIn(sigs, deviceName)
      slot == confuseAddReturnIn(sigs, E, deviceName)
  IN IF slot < 0 THEN E
     ELSE IF E[slot].enabled THEN [ E EXCEPT ![slot].instanceCount = instanceCount ]
     ELSE [ E EXCEPT ![slot] =
              [ deviceName |-> strncpy31(sigs[sig].name),
                sig |-> sig,
                instanceCount |-> instanceCount,
                enabled |-> TRUE ] ]

confuseAddEntries(E, deviceName, instanceCount) ==
  confuseAddEntriesIn(BUILTIN_SIGNATURES, E, deviceName, instanceCount)

\* TXManager::confuseAdd
ConfuseAdd(deviceName, instanceCount) ==
  /\ confusionEntries' = confuseAddEntries(confusionEntries, deviceName, instanceCount)
  /\ call' = TxCall("confuseAdd", deviceName, confuseAddReturn(confusionEntries, deviceName))
  /\ radio' = << >>
  /\ UNCHANGED << sessions, confusionActive, confusionIndex, totalPacketsSent,
                  lastConfuseTime, clock, regVars >>

\* slot disabled by TXManager::confuseRemove, -1 if none
confuseRemoveSlot(E, deviceName) ==
  LET hit == { i \in AllEntries :
                 E[i].enabled /\ strcasecmp(E[i].deviceName, deviceName) = 0 }
  IN IF hit = {} THEN -1 ELSE CHOOSE i \in hit : \A k \in hit : i <= k

\* _confusionEntries after TXManager::confuseRemove
confuseRemoveEntries(E, deviceName) ==
  LET slot == confuseRemoveSlot(E, deviceName)
  IN IF slot = -1 THEN E ELSE [ E EXCEPT ![slot].enabled = FALSE ]

\* TXManager::confuseRemove
ConfuseRemove(deviceName) ==
  /\ confusionEntries' = confuseRemoveEntries(confusionEntries, deviceName)
  /\ call' = TxCall("confuseRemove", deviceName,
                    IF confuseRemoveSlot(confusionEntries, deviceName) = -1 THEN -1 ELSE 0)
  /\ radio' = << >>
  /\ UNCHANGED << sessions, confusionActive, confusionIndex, totalPacketsSent,
                  lastConfuseTime, clock, regVars >>

\* TXManager::confuseClear
ConfuseClear ==
  /\ confusionEntries' = [ i \in AllEntries |-> [ confusionEntries[i] EXCEPT !.enabled = FALSE ] ]
  /\ confusionActive' = FALSE
  /\ call' = TxCall("confuseClear", << >>, 0)
  /\ radio' = << >>
  /\ UNCHANGED << sessions, confusionIndex, totalPacketsSent, lastConfuseTime, clock, regVars >>

\* confuseStart that leaves the index where it is
ConfuseStart_KeepIndex ==
  LET entryCount == getConfusionEntryCount(confusionEntries) IN
  /\ confusionActive' = IF entryCount = 0 THEN confusionActive ELSE TRUE
  /\ confusionIndex' = confusionIndex
  /\ call' = TxCall("confuseStart", << >>, IF entryCount = 0 THEN -1 ELSE entryCount)
  /\ radio' = << >>
  /\ UNCHANGED << sessions, confusionEntries, totalPacketsSent, lastConfuseTime, clock, regVars >>

\* TXManager::confuseStart
ConfuseStart ==
  LET entryCount == getConfusionEntryCount(confusionEntries) IN
  /\ confusionActive' = IF entryCount = 0 THEN confusionActive ELSE TRUE
  /\ confusionIndex' = IF entryCount = 0 THEN confusionIndex ELSE 0
  /\ call' = TxCall("confuseStart", << >>, IF entryCount = 0 THEN -1 ELSE entryCount)
  /\ radio' = << >>
  /\ UNCHANGED << sessions, confusionEntries, totalPacketsSent, lastConfuseTime, clock, regVars >>

\* confuseStop that also disables the entries, as confuseClear does
ConfuseStop_ClearEntries ==
  /\ confusionEntries' = [ i \in AllEntries |-> [ confusionEntries[i] EXCEPT !.enabled = FALSE ] ]
  /\ confusionActive' = FALSE
  /\ call' = TxCall("confuseStop", << >>, 0)
  /\ radio' = << >>
  /\ UNCHANGED << sessions, confusionIndex, totalPacketsSent, lastConfuseTime, clock, regVars >>

\* TXManager::confuseStop
ConfuseStop ==
  /\ confusionActive' = FALSE
  /\ call' = TxCall("confuseStop", << >>, 0)
  /\ radio' = << >>
  /\ UNCHANGED << sessions, confusionEntries, confusionIndex, totalPacketsSent,
                  lastConfuseTime, clock, regVars >>

\* ---------------------------------------------------------------------------
\* Packet transmission
\* ---------------------------------------------------------------------------
TX_BURST_DELAY_MS == 5
CONFUSION_BURST_DELAY_MS == 3
CONFUSION_PERIOD_MS == 20

\* the radio calls of one advertising burst, in the order the code makes them:
\* esp_ble_gap_set_rand_addr, esp_ble_gap_config_adv_data_raw,
\* esp_ble_gap_start_advertising, (delay), esp_ble_gap_stop_advertising
RadioCall(op, kind, slot, addr, data) ==
  [ op |-> op, kind |-> kind, slot |-> slot, addr |-> addr, data |-> data ]
\* Burst that leaves the advertiser running
Burst_NoStop(kind, slot, addr, data) ==
  << RadioCall("set_rand_addr", kind, slot, addr, data),
     RadioCall("config_adv_data_raw", kind, slot, addr, data),
     RadioCall("start_advertising", kind, slot, addr, data) >>

Burst(kind, slot, addr, data) ==
  << RadioCall("set_rand_addr", kind, slot, addr, data),
     RadioCall("config_adv_data_raw", kind, slot, addr, data),
     RadioCall("start_advertising", kind, slot, addr, data),
     RadioCall("stop_advertising", kind, slot, addr, data) >>

\* transmitPacket that takes a new address for every burst of every session
transmitPacketIn_FreshMac(sigs, st, i, seed) ==
  LET s == st.S[i]
      mac == generateRandomMac(RandomBytes(seed, 16 * i + 4, 6))
  IN IF ~s.active \/ s.sig = 0 THEN st
     ELSE [ st EXCEPT !.S[i].currentMac = mac,
                      !.S[i].packetsSent = s.packetsSent + 1,
                      !.S[i].lastTxTime = st.clk + TX_BURST_DELAY_MS,
                      !.clk = st.clk + TX_BURST_DELAY_MS,
                      !.total = st.total + 1,
                      !.air = st.air \o Burst("tx", i, mac, << >>) ]

\* transmitPacket that counts down whatever the remaining count is
transmitPacketIn_CountDown(sigs, st, i, seed) ==
  LET s == st.S[i] IN
  IF ~s.active \/ s.sig = 0 THEN st
  ELSE [ st EXCEPT !.S[i].packetsSent = s.packetsSent + 1,
                   !.S[i].remainingCount = s.remainingCount - 1,
                   !.S[i].active = s.remainingCount - 1 > 0,
                   !.S[i].lastTxTime = st.clk + TX_BURST_DELAY_MS,
                   !.clk = st.clk + TX_BURST_DELAY_MS,
                   !.total = st.total + 1,
                   !.air = st.air \o Burst("tx", i, s.currentMac, << >>) ]

\* transmitPacket that leaves the session active when the count runs out
transmitPacketIn_KeepActive(sigs, st, i, seed) ==
  LET s == st.S[i] IN
  IF ~s.active \/ s.sig = 0 THEN st
  ELSE [ st EXCEPT !.S[i].packetsSent = s.packetsSent + 1,
                   !.S[i].remainingCount = IF s.remainingCount > 0 THEN s.remainingCount - 1
                                           ELSE s.remainingCount,
                   !.S[i].lastTxTime = st.clk + TX_BURST_DELAY_MS,
                   !.clk = st.clk + TX_BURST_DELAY_MS,
                   !.total = st.total + 1,
                   !.air = st.air \o Burst("tx", i, s.currentMac, << >>) ]

\* TXManager::transmitPacket(&_sessions[i]) applied to
\* st = [S: the sessions, clk: millis(), total: _totalPacketsSent, air: radio calls so far]
transmitPacketIn(sigs, st, i, seed) ==
  LET s == st.S[i] IN
  IF ~s.active \/ s.sig = 0 THEN st
  ELSE
    LET advData == buildAdvertisingData(sigs[s.sig], RandomBytes(seed, 16 * i, 4))
        mac == IF s.randomMacPerPacket
               THEN generateRandomMac(RandomBytes(seed, 16 * i + 4, 6))
               ELSE s.currentMac
        clk == st.clk + TX_BURST_DELAY_MS
        remaining == IF s.remainingCount > 0 THEN s.remainingCount - 1 ELSE s.remainingCount
    IN [ S |-> [ st.S EXCEPT ![i] =
                   [ s EXCEPT !.currentMac = mac,
                              !.packetsSent = s.packetsSent + 1,
                              !.lastTxTime = clk,
                              !.remainingCount = remaining,
                              !.active = ~(s.remainingCount > 0 /\ remaining = 0) ] ],
         clk |-> clk,
         total |-> st.total + 1,
         air |-> st.air \o Burst("tx", i, mac, advData) ]

transmitPacket(st, i, seed) == transmitPacketIn(BUILTIN_SIGNATURES, st, i, seed)

\* the session loop that transmits for every active session, due or not
RECURSIVE ProcessSessionsIn_NoInterval(_, _, _, _, _)
ProcessSessionsIn_NoInterval(sigs, st, i, now, seed) ==
  IF i >= TX_MAX_CONCURRENT THEN st
  ELSE ProcessSessionsIn_NoInterval(sigs,
                                    IF st.S[i].active THEN transmitPacketIn(sigs, st, i, seed)
                                    ELSE st,
                                    i + 1, now, seed)

\* the session loop of TXManager::process, from slot i on
RECURSIVE ProcessSessionsIn(_, _, _, _, _)
ProcessSessionsIn(sigs, st, i, now, seed) ==
  IF i >= TX_MAX_CONCURRENT THEN st
  ELSE LET s == st.S[i]
           due == s.active /\ now - s.lastTxTime >= s.intervalMs
       IN ProcessSessionsIn(sigs, IF due THEN transmitPacketIn(sigs, st, i, seed) ELSE st,
                            i + 1, now, seed)

ProcessSessions(st, i, now, seed) == ProcessSessionsIn(BUILTIN_SIGNATURES, st, i, now, seed)

\* NextConfusionEntry that always takes the lowest enabled slot
NextConfusionEntry_Lowest(E, idx) ==
  LET ks == { k \in 0..(TX_CONFUSION_MAX_DEVICES - 1) : E[k].enabled }
  IN IF ks = {} THEN -1 ELSE CHOOSE k \in ks : \A m \in ks : k <= m

\* NextConfusionEntry that takes the slot at the index, enabled or not
NextConfusionEntry_AtIndex(E, idx) == idx

\* slot transmitted by TXManager::transmitConfusionPacket from index idx, -1 if none
NextConfusionEntry(E, idx) ==
  LET ks == { k \in 0..(TX_CONFUSION_MAX_DEVICES - 1) :
                E[(idx + k) % TX_CONFUSION_MAX_DEVICES].enabled }
  IN IF ks = {} THEN -1
     ELSE (idx + (CHOOSE k \in ks : \A m \in ks : k <= m)) % TX_CONFUSION_MAX_DEVICES

\* TXManager::process applied to
\* m = [S: _sessions, E: _confusionEntries, active: _confusionActive,
\*      index: _confusionIndex, total: _totalPacketsSent, last: lastConfuseTime,
\*      clk: millis()]; air: the radio calls it makes
processResultIn(sigs, m, seed) ==
  LET now == m.clk
      st == ProcessSessionsIn(sigs, [ S |-> m.S, clk |-> m.clk, total |-> m.total,
                                      air |-> << >> ],
                              0, now, seed)
      tick == m.active /\ now - m.last >= CONFUSION_PERIOD_MS
      e == IF tick THEN NextConfusionEntry(m.E, m.index) ELSE -1
  IN [ S |-> st.S,
       E |-> m.E,
       active |-> m.active,
       index |-> IF e >= 0 THEN (e + 1) % TX_CONFUSION_MAX_DEVICES ELSE m.index,
       total |-> IF e >= 0 THEN st.total + 1 ELSE st.total,
       last |-> IF tick THEN now ELSE m.last,
       clk |-> IF e >= 0 THEN st.clk + CONFUSION_BURST_DELAY_MS ELSE st.clk,
       air |-> IF e >= 0
               THEN st.air \o Burst("confusion", e,
                        generateRandomMac(RandomBytes(seed, 16 * TX_MAX_CONCURRENT + 4, 6)),
                        buildAdvertisingData(sigs[m.E[e].sig],
                                             RandomBytes(seed, 16 * TX_MAX_CONCURRENT, 4)))
               ELSE st.air ]

processResult(m, seed) == processResultIn(BUILTIN_SIGNATURES, m, seed)

\* the TXManager members and millis() as one record
Manager ==
  [ S |-> sessions, E |-> confusionEntries, active |-> confusionActive,
    index |-> confusionIndex, total |-> totalPacketsSent, last |-> lastConfuseTime,
    clk |-> clock ]

\* TXManager::process
Process(seed) ==
  LET r == processResult(Manager, seed) IN
  /\ sessions' = r.S
  /\ radio' = r.air
  /\ clock' = r.clk
  /\ totalPacketsSent' = r.total
  /\ confusionIndex' = r.index
  /\ lastConfuseTime' = r.last
  /\ call' = TxCall("process", << >>, 0)
  /\ UNCHANGED << confusionEntries, confusionActive, regVars >>

\* time passing between two calls
Tick(d) ==
  /\ clock' = clock + d
  /\ radio' = << >>
  /\ call' = TxCall("tick", << >>, d)
  /\ UNCHANGED << sessions, confusionEntries, confusionActive, confusionIndex,
                  totalPacketsSent, lastConfuseTime, regVars >>

\* ---------------------------------------------------------------------------
\* Detected-device registry (main.cpp)
\* ---------------------------------------------------------------------------
DEFAULT_RSSI_THRESHOLD == -80

\* a zero-initialised struct DetectedDevice
ZeroDevice ==
  [ name |-> << >>, mac |-> << 0, 0, 0, 0, 0, 0 >>, rssi |-> 0, category |-> 0,
    companyId |-> 0, firstSeen |-> 0, lastSeen |-> 0, detectionCount |-> 0,
    threatLevel |-> 0, active |-> FALSE ]

\* the globals of main.cpp before setup()
\* the globals of main.cpp that loop() works on, before setup()
MainInit ==
  /\ scanning = FALSE
  /\ txActive = FALSE
  /\ lastScanTime = 0
  /\ scanStarted = FALSE

RegistryInit ==
  /\ detectedDevices = [ i \in 0..(-1) |-> ZeroDevice ]
  /\ detectedCount = 0
  /\ categoryFilter = DEFAULT_CATEGORY_FILTER
  /\ rssiThreshold = DEFAULT_RSSI_THRESHOLD

\* FindDevice that never finds an entry
FindDevice_Never(D, n, mac) == -1

\* lines 127-133: index of the entry holding mac, -1 if none
FindDevice(D, n, mac) ==
  LET hit == { i \in 0..(n - 1) : D[i].mac = mac }
  IN IF hit = {} THEN -1 ELSE CHOOSE i \in hit : \A k \in hit : i <= k

\* PassesFilters without the signal-level floor
PassesFilters_AnyLevel(sig, rssi, filter, threshold) ==
  /\ sig # 0
  /\ BitAnd8(BUILTIN_SIGNATURES[sig].category, filter, 8) # 0

\* PassesFilters without the category test
PassesFilters_AnyCategory(sig, rssi, filter, threshold) ==
  /\ sig # 0
  /\ ~(rssi < threshold)

\* does ScanCallbacks::onResult pass both filters for signature index sig
PassesFilters(sig, rssi, filter, threshold) ==
  /\ sig # 0
  /\ BitAnd8(BUILTIN_SIGNATURES[sig].category, filter, 8) # 0
  /\ ~(rssi < threshold)

\* lines 143-154: the entry written for a newly seen device
NewDevice(sig, rssi, mac, now) ==
  [ name |-> strncpy31(BUILTIN_SIGNATURES[sig].name),
    mac |-> mac,
    rssi |-> rssi,
    category |-> BUILTIN_SIGNATURES[sig].category,
    companyId |-> BUILTIN_SIGNATURES[sig].company_id,
    firstSeen |-> now,
    lastSeen |-> now,
    detectionCount |-> 1,
    threatLevel |-> BUILTIN_SIGNATURES[sig].threat_level,
    active |-> TRUE ]

\* RegistryUpdate with the capacity test off by one
RegistryUpdate_OneMore(D, n, sig, rssi, mac, now) ==
  LET existingIdx == FindDevice(D, n, mac) IN
  IF existingIdx >= 0
  THEN [ D |-> [ D EXCEPT ![existingIdx] =
                   [ D[existingIdx] EXCEPT !.rssi = rssi,
                                           !.lastSeen = now,
                                           !.detectionCount = (D[existingIdx].detectionCount + 1) % UINT16,
                                           !.active = TRUE ] ],
         n |-> n ]
  ELSE IF n <= DETECTED_DEVICES_MAX
  THEN [ D |-> [ i \in 0..n |-> IF i < n THEN D[i] ELSE NewDevice(sig, rssi, mac, now) ],
         n |-> n + 1 ]
  ELSE [ D |-> D, n |-> n ]

\* the registry [D, n] after lines 122-163 for a match that passed the filters
RegistryUpdate(D, n, sig, rssi, mac, now) ==
  LET existingIdx == FindDevice(D, n, mac) IN
  IF existingIdx >= 0
  THEN [ D |-> [ D EXCEPT ![existingIdx] =
                   [ D[existingIdx] EXCEPT !.rssi = rssi,
                                           !.lastSeen = now,
                                           !.detectionCount = (D[existingIdx].detectionCount + 1) % UINT16,
                                           !.active = TRUE ] ],
         n |-> n ]
  ELSE IF n < DETECTED_DEVICES_MAX
  THEN [ D |-> [ i \in 0..n |-> IF i < n THEN D[i] ELSE NewDevice(sig, rssi, mac, now) ],
         n |-> n + 1 ]
  ELSE [ D |-> D, n |-> n ]

\* ScanCallbacks::onResult
OnResult(payload, rssi, mac) ==
  LET sig == matchSignature(payload)
      reg == IF PassesFilters(sig, rssi, categoryFilter, rssiThreshold)
             THEN RegistryUpdate(detectedDevices, detectedCount, sig, rssi, mac, clock)
             ELSE [ D |-> detectedDevices, n |-> detectedCount ]
  IN
  /\ detectedDevices' = reg.D
  /\ detectedCount' = reg.n
  /\ call' = [ NoCall EXCEPT !.op = "onResult", !.payload = payload, !.rssi = rssi,
                             !.mac = mac, !.ret = sig ]
  /\ radio' = << >>
  /\ UNCHANGED << sessions, confusionEntries, confusionActive, confusionIndex,
                  totalPacketsSent, lastConfuseTime, clock, categoryFilter, rssiThreshold >>

\* processSerialCommand, "SCAN CLEAR"
ScanClear ==
  /\ detectedCount' = 0
  /\ detectedDevices' = [ i \in 0..(-1) |-> ZeroDevice ]
  /\ call' = [ NoCall EXCEPT !.op = "scanClear" ]
  /\ radio' = << >>
  /\ UNCHANGED << sessions, confusionEntries, confusionActive, confusionIndex,
                  totalPacketsSent, lastConfuseTime, clock, categoryFilter, rssiThreshold >>

\* handleTouch, filter screen: categoryFilter ^= categories[categoryIdx]
ToggleCategory(cat) ==
  /\ categoryFilter' = BitXor8(categoryFilter, cat, 8)
  /\ call' = [ NoCall EXCEPT !.op = "toggleCategory", !.idx = cat ]
  /\ radio' = << >>
  /\ UNCHANGED << sessions, confusionEntries, confusionActive, confusionIndex,
                  totalPacketsSent, lastConfuseTime, clock, detectedDevices,
                  detectedCount, rssiThreshold >>

\* ---------------------------------------------------------------------------
\* Direct applications of the matcher and the forger
\* ---------------------------------------------------------------------------
\* `call` holds the input drawn for the application (op "observe", "forge"
\* or "probe"); the action replaces it by the application and its result.

\* matchSignature on one observed advertisement
MatchAdvertisement ==
  /\ call.op = "observe"
  /\ call' = [ call EXCEPT !.op = "matchSignature", !.ret = matchSignature(call.payload) ]
  /\ UNCHANGED << txVars, clock, regVars >>

\* the packet forged for catalog entry call.idx is observed by the scanner
ForgeAndMatch ==
  LET advData == buildAdvertisingData(BUILTIN_SIGNATURES[call.idx],
                                      RandomBytes(call.seed, 0, 4)) IN
  /\ call.op = "forge"
  /\ call' = [ call EXCEPT !.op = "forgeAndMatch", !.sig = BUILTIN_SIGNATURES[call.idx],
                           !.payload = advData, !.ret = matchSignature(advData) ]
  /\ UNCHANGED << txVars, clock, regVars >>

\* the matching loop run over a table holding the single signature call.sig
MatchOneSignature ==
  /\ call.op = "probe"
  /\ call' = [ call EXCEPT !.op = "matchOne",
                           !.ret = matchSignatureIn(<< call.sig >>, call.payload) ]
  /\ UNCHANGED << txVars, clock, regVars >>

\* ---------------------------------------------------------------------------
\* Inputs
\* ---------------------------------------------------------------------------
\* seeds of the hardware random stream
RandomSeeds == { 0, 3 }

\* the company ids of the catalog, and one that no signature uses
CompanyIds == { BUILTIN_SIGNATURES[i].company_id : i \in 1..BUILTIN_SIGNATURE_COUNT } \cup { 6 }

\* what precedes the manufacturer record in an observed advertisement
AdvPrefixes ==
  { << >>,
    << 2, 1, 6 >>,                      \* Flags
    << 2, 1, 6, 3, 3, 44, 254 >>,       \* Flags, 16-bit service UUID list
    << 0 >>,                            \* a record of length 0
    << 9, 1, 6 >>,                      \* a record longer than the buffer
    << 3, 255, 6, 0 >>,                 \* manufacturer data of another company
    << 1, 255 >>,                       \* manufacturer record without data
    << 2, 255, 76 >> }                  \* manufacturer record one data byte long

\* bytes that follow the company id in the manufacturer record
AdvMfgTails == { << >>, << 7, 25 >>, << 18, 25, 236, 254 >> }

\* what follows the manufacturer record
AdvSuffixes == { << >>, << 3, 3, 188, 254 >>, << 5 >> }

MfgData(c, tail) == << 3 + Len(tail), 255, c % 256, c \div 256 >> \o tail

StructuredPayloads ==
  { pre \o MfgData(c, tail) \o suf :
      pre \in AdvPrefixes, c \in CompanyIds, tail \in AdvMfgTails, suf \in AdvSuffixes }

\* advertisements without usable manufacturer data
OtherPayloads ==
  { << 2, 1, 6, 6, 255, 76, 0, 7, 25, 170 >>,   \* the AirTag advertisement of the specification
    << 76, 0, 7, 25 >>,                         \* the AirTag pattern at offset 0 of the payload
    << 2, 1, 6, 236, 254 >>,                    \* the Tile pattern inside a truncated record
    << 2, 1, 6, 6, 255, 76, 0 >>,               \* manufacturer record cut short
    << 2, 1, 6, 3, 255, 76 >>,
    << 5, 9, 76, 0, 7, 25 >> }                  \* the AirTag pattern as a local name

\* every byte string up to MaxRawLen over RawBytes
MaxRawLen == 3
RawBytes == { 0, 1, 2, 3, 76, 255 }
RawPayloads == UNION { [ 1..n -> RawBytes ] : n \in 0..MaxRawLen }

AdvPayloads == StructuredPayloads \cup OtherPayloads \cup RawPayloads

TransmittableIndices ==
  { i \in 1..BUILTIN_SIGNATURE_COUNT :
      HasFlag(BUILTIN_SIGNATURES[i].flags, SIG_FLAG_TRANSMITTABLE) }

\* signatures outside the catalog: every combination of the matching flags
ProbeFlagSets ==
  { c + p + x : c \in { 0, SIG_FLAG_COMPANY_ID }, p \in { 0, SIG_FLAG_PAYLOAD },
                x \in { 0, SIG_FLAG_EXACT_MATCH } }
ProbeSignatures ==
  { [ ZeroSignature EXCEPT !.company_id = 76,
                           !.payload_pattern = << 76, 0, 7, 25, 0, 0, 0, 0 >>,
                           !.pattern_length = len, !.pattern_offset = off,
                           !.threat_level = THREAT_LOW, !.category = CAT_TRACKER,
                           !.flags = f ] :
      f \in ProbeFlagSets, len \in { 0, 4 }, off \in { -1, 0, 2, 5 } }
ProbePayloads ==
  { << 2, 1, 6, 6, 255, 76, 0, 7, 25, 170 >>,   \* the AirTag advertisement of the specification
    << 2, 1, 6, 5, 255, 76, 0, 7, 25 >>,        \* company id and pattern (offset 5)
    << 2, 1, 6, 3, 255, 76, 0 >>,               \* company id only
    << 76, 0, 7, 25 >>,                         \* pattern only (offset 0)
    << 5, 9, 76, 0, 7, 25 >>,                   \* pattern only (offset 2)
    << 3, 255, 6, 0, 5, 9, 76, 0, 7, 25 >>,     \* another company id, pattern at offset 6
    << 2, 1, 6 >>,                              \* neither
    << 3, 255, 76, 0 >>,                        \* manufacturer record ending at the last byte
    << 4, 255, 76, 0 >>,                        \* manufacturer record one byte too long
    << 0, 3, 255, 76, 0 >>,                     \* a record of length 0 before it
    << 3, 255, 76, 0, 0, 9 >>,                  \* a record of length 0 after it
    << 9, 1, 76, 0, 7, 25 >>,                   \* the pattern inside a record that is too long
    << 0, 76, 0, 7, 25 >> }                     \* the pattern after a record of length 0

\* ---------------------------------------------------------------------------
\* Specifications
\* ---------------------------------------------------------------------------
\* the state after construction, before setup()
Init ==
  /\ TXManagerInit
  /\ RegistryInit
  /\ MainInit
  /\ clock = 0
  /\ call = NoCall
  /\ calls = 0

\* one more call, at most MaxCalls of them in a behaviour; a call made outside
\* loop() leaves the globals of loop() alone
MaxCalls == 4
Step(A) == calls < MaxCalls /\ calls' = calls + 1 /\ A /\ UNCHANGED loopVars

\* the matcher and the forger applied to bounded inputs
MatchInputs ==
  { [ NoCall EXCEPT !.op = "observe", !.payload = payload ] : payload \in AdvPayloads }
  \cup { [ NoCall EXCEPT !.op = "forge", !.idx = i, !.seed = seed ] :
           i \in TransmittableIndices, seed \in RandomSeeds }
  \cup { [ NoCall EXCEPT !.op = "probe", !.sig = sig, !.payload = payload ] :
           sig \in ProbeSignatures, payload \in ProbePayloads }

InitMatch ==
  /\ TXManagerInit
  /\ RegistryInit
  /\ MainInit
  /\ clock = 0
  /\ call \in MatchInputs
  /\ calls = 0

NextMatch ==
  \/ Step(MatchAdvertisement)
  \/ Step(ForgeAndMatch)
  \/ Step(MatchOneSignature)

SpecMatch == InitMatch /\ [][NextMatch]_vars

\* ---------------------------------------------------------------------------
\* Claims about the matcher and the forger
\* ---------------------------------------------------------------------------
\* the two checks of a signature as the specification words them
CompanyMatch(sig, payload) == CompanyMatched(sig, ParseMfgData(payload, 0))
PatternMatch(sig, payload) ==
  /\ HasFlag(sig.flags, SIG_FLAG_PAYLOAD)
  /\ sig.pattern_length > 0
  /\ PatternFound(sig, payload)

\* C1: for every transmittable catalog signature S whose pattern has a fixed
\* offset (pattern_offset >= 0), the matcher applied to the payload the forger
\* builds for S returns S itself.
C1_RoundTrip ==
  (call.op = "forgeAndMatch" /\ call.sig.pattern_offset >= 0) => call.ret = call.idx

\* C6: for every signature with EXACT_MATCH set and every advertisement, the
\* signature matches only if company-match and pattern-match both hold
\* (pattern-match being false when the PAYLOAD flag is unset or the pattern
\* length is 0).
C6_ExactNeedsBoth ==
  (call.op = "matchOne" /\ HasFlag(call.sig.flags, SIG_FLAG_EXACT_MATCH))
    => (call.ret # 0 => CompanyMatch(call.sig, call.payload) /\ PatternMatch(call.sig, call.payload))

\* C6 (amended): a signature with EXACT_MATCH set matches exactly when
\* company-match holds and, if its PAYLOAD flag is set with a pattern of
\* length > 0, pattern-match holds too; with the PAYLOAD flag unset or the
\* pattern length 0 it matches on company-match alone.
C6_ExactAmended ==
  (call.op = "matchOne" /\ HasFlag(call.sig.flags, SIG_FLAG_EXACT_MATCH))
    => (call.ret # 0 <=>
          /\ CompanyMatch(call.sig, call.payload)
          /\ (HasFlag(call.sig.flags, SIG_FLAG_PAYLOAD) /\ call.sig.pattern_length > 0)
               => PatternMatch(call.sig, call.payload))

\* an EXACT_MATCH signature with a pattern is offered an advertisement that
\* satisfies the company id only, and does not match
C6_Witness ==
  /\ call.op = "matchOne"
  /\ HasFlag(call.sig.flags, SIG_FLAG_EXACT_MATCH)
  /\ HasFlag(call.sig.flags, SIG_FLAG_PAYLOAD)
  /\ call.sig.pattern_length > 0
  /\ CompanyMatch(call.sig, call.payload)
  /\ ~PatternMatch(call.sig, call.payload)
  /\ call.ret = 0

\* catalog signatures whose only matching flag is COMPANY_ID
CompanyOnlyIndices ==
  { i \in 1..BUILTIN_SIGNATURE_COUNT :
      /\ HasFlag(BUILTIN_SIGNATURES[i].flags, SIG_FLAG_COMPANY_ID)
      /\ ~HasFlag(BUILTIN_SIGNATURES[i].flags, SIG_FLAG_PAYLOAD)
      /\ ~HasFlag(BUILTIN_SIGNATURES[i].flags, SIG_FLAG_SERVICE_UUID)
      /\ ~HasFlag(BUILTIN_SIGNATURES[i].flags, SIG_FLAG_NAME_PATTERN) }

\* offsets (from 0) at which the records of a payload start, following the
\* length bytes from offset idx while the records are well formed
RECURSIVE RecordStarts(_, _)
RecordStarts(payload, idx) ==
  IF idx >= Len(payload) THEN {}
  ELSE IF payload[idx + 1] = 0 \/ idx + payload[idx + 1] + 1 > Len(payload) THEN {}
  ELSE { idx } \cup RecordStarts(payload, idx + payload[idx + 1] + 1)

\* the records that are Manufacturer Specific Data carrying a company id
MfgRecordStarts(payload) ==
  { s \in RecordStarts(payload, 0) : payload[s + 2] = 255 /\ payload[s + 1] >= 3 }
MfgIdAt(payload, s) == payload[s + 3] + 256 * payload[s + 4]

\* the advertisement carries a well-formed manufacturer record with company id c
CarriesMfgId(payload, c) == \E s \in MfgRecordStarts(payload) : MfgIdAt(payload, s) = c

\* the first manufacturer record of the advertisement has company id c
FirstMfgIdIs(payload, c) ==
  \E s \in MfgRecordStarts(payload) :
     /\ MfgIdAt(payload, s) = c
     /\ \A t \in MfgRecordStarts(payload) : s <= t

NameAirTagRegistered == << 65, 105, 114, 84, 97, 103, 32, 40, 82, 101, 103, 105, 115, 116, 101, 114, 101, 100, 41 >>
\* "airtag (registered)": entry 1 in another letter case
NameAirTagLower == << 97, 105, 114, 116, 97, 103, 32, 40, 114, 101, 103, 105, 115, 116, 101, 114, 101, 100, 41 >>
\* "AirTag": a substring that resolves to entry 1
NameAirTag == << 65, 105, 114, 84, 97, 103 >>
\* "Bose": no catalog name equals it, "Bose Frames" contains it
NameBose == << 66, 111, 115, 101 >>
\* "Snap Spectacles": a catalog name
NameSnapSpectacles == << 83, 110, 97, 112, 32, 83, 112, 101, 99, 116, 97, 99, 108, 101, 115 >>
\* "Fitbit": a catalog name whose signature is not transmittable
NameFitbit == << 70, 105, 116, 98, 105, 116 >>

TxNames == { NameAirTagRegistered, NameAirTagLower, NameAirTag, NameBose,
             NameSnapSpectacles, NameFitbit }
TxIntervals == { TX_DEFAULT_INTERVAL_MS }
TxCounts == { -1 }
StartSeeds == { 3 }
TickDeltas == { TX_DEFAULT_INTERVAL_MS }

\* _sessions after "tx start" of the first k catalog devices, continuous and
\* single-packet sessions alternating
RECURSIVE StartedSessions(_)
StartedSessions(k) ==
  IF k = 0 THEN [ i \in 0..(TX_MAX_CONCURRENT - 1) |-> ZeroSession ]
  ELSE startTxSessions(StartedSessions(k - 1), BUILTIN_SIGNATURES[k].name,
                       TX_DEFAULT_INTERVAL_MS, IF k % 2 = 1 THEN -1 ELSE 1, FALSE, k)

\* sessions already running when the exploration starts
StartedCounts == { 0, TX_MAX_CONCURRENT - 1, TX_MAX_CONCURRENT }

InitTx ==
  /\ \E k \in StartedCounts : sessions = StartedSessions(k)
  /\ confusionEntries = [ i \in 0..(TX_CONFUSION_MAX_DEVICES - 1) |-> ZeroConfusionEntry ]
  /\ confusionActive = FALSE
  /\ totalPacketsSent = 0
  /\ confusionIndex = 0
  /\ lastConfuseTime = 0
  /\ radio = << >>
  /\ RegistryInit
  /\ MainInit
  /\ clock = 0
  /\ call = NoCall
  /\ calls = 0

Next ==
  \/ \E name \in TxNames, intervalMs \in TxIntervals, count \in TxCounts, seed \in StartSeeds :
        Step(StartTx(name, intervalMs, count, FALSE, seed))
  \/ \E name \in TxNames : Step(StopTx(name))
  \/ Step(StopAll)
  \/ \E seed \in RandomSeeds : Step(Process(seed))
  \/ \E d \in TickDeltas : Step(Tick(d))

Spec == InitTx /\ [][Next]_vars
\* ---------------------------------------------------------------------------
\* TX session pool: start and stop
\* ---------------------------------------------------------------------------
AllSlots == 0..(TX_MAX_CONCURRENT - 1)

\* the active sessions of S that transmit catalog entry sig
ActiveWithSignature(S, sig) == { i \in AllSlots : S[i].active /\ S[i].sig = sig }

\* the active sessions of S whose device name is name, letter case ignored
ActiveWithName(S, name) ==
  { i \in AllSlots : S[i].active /\ strcasecmp(S[i].deviceName, name) = 0 }

\* C2: a start request whose name resolves to a signature that an active
\* session already transmits returns AlreadyActive (-2) and leaves the
\* sessions as they were, whichever name string was used.
C2_AlreadyActive ==
  [][ ( /\ call'.op = "startTx"
        /\ findSignatureByName(call'.name) # 0
        /\ ActiveWithSignature(sessions, findSignatureByName(call'.name)) # {} )
      => ( call'.ret = -2 /\ sessions' = sessions ) ]_vars

\* C3: no two active sessions hold the same device name, nor the same signature.
C3_OneSessionPerDevice ==
  \A i \in AllSlots, j \in AllSlots :
    ( i # j /\ sessions[i].active /\ sessions[j].active )
      => ( /\ sessions[i].sig # sessions[j].sig
           /\ sessions[i].deviceName # sessions[j].deviceName )

\* C4: at most TX_MAX_CONCURRENT sessions are active; with every slot active,
\* a start request for a resolvable name whose signature no active session
\* transmits returns NoCapacity (-3) and changes no slot.
C4_NoCapacity ==
  [][ /\ Cardinality({ i \in AllSlots : sessions[i].active }) <= TX_MAX_CONCURRENT
      /\ Cardinality({ i \in AllSlots : sessions'[i].active }) <= TX_MAX_CONCURRENT
      /\ ( /\ call'.op = "startTx"
           /\ \A i \in AllSlots : sessions[i].active
           /\ findSignatureByName(call'.name) # 0
           /\ ActiveWithSignature(sessions, findSignatureByName(call'.name)) = {} )
         => ( call'.ret = -3 /\ sessions' = sessions ) ]_vars

\* a start request was refused with NoCapacity while every slot was active and
\* none of them transmitted the requested signature
C4_Witness ==
  /\ call.op = "startTx"
  /\ call.ret = -3
  /\ \A i \in AllSlots : sessions[i].active
  /\ findSignatureByName(call.name) # 0
  /\ ActiveWithSignature(sessions, findSignatureByName(call.name)) = {}

\* C5: stop(name) returns NotFound (-1) and changes no session when no active
\* session's device name equals name (letter case ignored, as strcasecmp
\* compares); otherwise it clears the active flag of exactly one session of
\* that name and changes nothing else.
C5_StopOneSession ==
  [][ call'.op = "stopTx"
      => IF ActiveWithName(sessions, call'.name) = {}
         THEN call'.ret = -1 /\ sessions' = sessions
         ELSE /\ call'.ret = 0
              /\ \E i \in ActiveWithName(sessions, call'.name) :
                   sessions' = [ sessions EXCEPT ![i].active = FALSE ] ]_vars

\* a stop succeeded: a session of that name is now inactive, others still run
C5_Witness ==
  /\ call.op = "stopTx"
  /\ call.ret = 0
  /\ \E i \in AllSlots : /\ ~sessions[i].active
                         /\ strcasecmp(sessions[i].deviceName, call.name) = 0
  /\ \E j \in AllSlots : sessions[j].active

\* a stop found no session: an inactive session of that name is left alone
C5_WitnessNotFound ==
  /\ call.op = "stopTx"
  /\ call.ret = -1
  /\ \E i \in AllSlots : /\ ~sessions[i].active
                         /\ strcasecmp(sessions[i].deviceName, call.name) = 0
\* ---------------------------------------------------------------------------
\* Detected-device registry: scan results, "SCAN CLEAR", filter toggles
\* ---------------------------------------------------------------------------
\* the scenario advertisement: Flags, then Apple manufacturer data 4C 00 07 19 AA
AdvAirTag == << 2, 1, 6, 6, 255, 76, 0, 7, 25, 170 >>
\* Flags, then manufacturer data of company 0x00D1 (Dexcom, a medical device)
AdvDexcom == << 2, 1, 6, 3, 255, 209, 0 >>
\* Flags only: no signature matches
AdvFlagsOnly == << 2, 1, 6 >>

ScanPayloads == { AdvAirTag, AdvDexcom, AdvFlagsOnly }
ScanRssi == { -90, -42 }
DeviceMac(i) == << 2, 0, 0, 0, 0, i >>
ScanMacs == { DeviceMac(1), DeviceMac(101), DeviceMac(102) }
ToggledCategories == { CAT_TRACKER, CAT_MEDICAL }

\* the registry after the devices DeviceMac(1) .. DeviceMac(k) were each seen
\* once, at signal level -60 and time 0, as catalog entries 1, 2, 3, ... in turn
SeenDevices(k) ==
  [ D |-> [ i \in 0..(k - 1) |->
              NewDevice((i % BUILTIN_SIGNATURE_COUNT) + 1, -60, DeviceMac(i + 1), 0) ],
    n |-> k ]

\* the registry sizes and the detection counts of the first device from which
\* the exploration starts: a device seen once, and one seen 65535 times
SeenSizes == { 0, DETECTED_DEVICES_MAX - 1, DETECTED_DEVICES_MAX }
SeenCounts == { 1, UINT16 - 1 }

InitRegistry ==
  /\ TXManagerInit
  /\ clock = 0
  /\ call = NoCall
  /\ calls = 0
  /\ categoryFilter = DEFAULT_CATEGORY_FILTER
  /\ rssiThreshold = DEFAULT_RSSI_THRESHOLD
  /\ scanning = TRUE
  /\ txActive = FALSE
  /\ lastScanTime = 0
  /\ scanStarted = FALSE
  /\ \E k \in SeenSizes, c \in SeenCounts :
       /\ detectedCount = SeenDevices(k).n
       /\ detectedDevices = IF k = 0 THEN SeenDevices(k).D
                            ELSE [ SeenDevices(k).D EXCEPT ![0].detectionCount = c ]

NextRegistry ==
  \/ \E payload \in ScanPayloads, rssi \in ScanRssi, mac \in ScanMacs :
        Step(OnResult(payload, rssi, mac))
  \/ Step(ScanClear)
  \/ \E cat \in ToggledCategories : Step(ToggleCategory(cat))
  \/ \E d \in TickDeltas : Step(Tick(d))

SpecRegistry == InitRegistry /\ [][NextRegistry]_vars
\* the step is a scan result that matched a signature and passed the category
\* filter and the signal-level floor in force before it
FilteredMatch ==
  /\ call'.op = "onResult"
  /\ call'.ret # 0
  /\ BitAnd8(BUILTIN_SIGNATURES[call'.ret].category, categoryFilter, 8) # 0
  /\ call'.rssi >= rssiThreshold

\* indices of the registry entries that hold address mac
EntriesOf(D, n, mac) == { i \in 0..(n - 1) : D[i].mac = mac }

\* C8: a filtered match whose address already has an entry creates no entry
\* and updates that one entry: detection_count grows by exactly one, signal
\* level and last_seen take the new values, active is set, and name, address,
\* category, company id, threat level and first_seen stay as they were.
C8_RepeatUpdatesOneEntry ==
  [][ ( FilteredMatch /\ EntriesOf(detectedDevices, detectedCount, call'.mac) # {} )
      => /\ detectedCount' = detectedCount
         /\ \E i \in EntriesOf(detectedDevices, detectedCount, call'.mac) :
              detectedDevices' =
                [ detectedDevices EXCEPT ![i] =
                    [ detectedDevices[i] EXCEPT
                        !.rssi = call'.rssi,
                        !.lastSeen = clock,
                        !.detectionCount = detectedDevices[i].detectionCount + 1,
                        !.active = TRUE ] ] ]_vars

\* the n entries of D hold n different addresses
DistinctAddresses(D, n) == Cardinality({ D[i].mac : i \in 0..(n - 1) }) = n

\* C9: no two registry entries hold the same address; while capacity remains,
\* a filtered match from an address without an entry appends one entry for
\* that address, with detection_count 1 and the signature's threat level, and
\* leaves the entries already there as they were.
C9_OneEntryPerAddress ==
  [][ /\ DistinctAddresses(detectedDevices, detectedCount)
      /\ DistinctAddresses(detectedDevices', detectedCount')
      /\ ( /\ FilteredMatch
           /\ EntriesOf(detectedDevices, detectedCount, call'.mac) = {}
           /\ detectedCount < DETECTED_DEVICES_MAX )
         => /\ detectedCount' = detectedCount + 1
            /\ \A i \in 0..(detectedCount - 1) : detectedDevices'[i] = detectedDevices[i]
            /\ detectedDevices'[detectedCount].mac = call'.mac
            /\ detectedDevices'[detectedCount].detectionCount = 1
            /\ detectedDevices'[detectedCount].threatLevel =
                 BUILTIN_SIGNATURES[call'.ret].threat_level ]_vars

\* two addresses matched the same signature: the last scan result created the
\* second of two entries of that name, each with detection_count 1
C9_Witness ==
  /\ call.op = "onResult"
  /\ detectedCount >= 2
  /\ detectedDevices[detectedCount - 1].mac = call.mac
  /\ detectedDevices[detectedCount - 1].detectionCount = 1
  /\ detectedDevices[detectedCount - 1].threatLevel = BUILTIN_SIGNATURES[call.ret].threat_level
  /\ \E i \in 0..(detectedCount - 2) :
       /\ detectedDevices[i].name = detectedDevices[detectedCount - 1].name
       /\ detectedDevices[i].mac # call.mac
       /\ detectedDevices[i].detectionCount = 1

\* C10: the registry never holds more than DETECTED_DEVICES_MAX entries; when
\* it is full, a filtered match from an address without an entry leaves the
\* registry as it was, and a filtered match from an address with an entry
\* still refreshes that entry's signal level and last_seen and marks it active.
C10_FullRegistryDrops ==
  [][ /\ detectedCount <= DETECTED_DEVICES_MAX
      /\ detectedCount' <= DETECTED_DEVICES_MAX
      /\ ( FilteredMatch /\ detectedCount = DETECTED_DEVICES_MAX )
         => IF EntriesOf(detectedDevices, detectedCount, call'.mac) = {}
            THEN detectedDevices' = detectedDevices /\ detectedCount' = detectedCount
            ELSE /\ detectedCount' = detectedCount
                 /\ \E i \in EntriesOf(detectedDevices, detectedCount, call'.mac) :
                      /\ detectedDevices'[i].rssi = call'.rssi
                      /\ detectedDevices'[i].lastSeen = clock
                      /\ detectedDevices'[i].active
                      /\ detectedDevices'[i].detectionCount # detectedDevices[i].detectionCount
                      /\ \A j \in 0..(detectedCount - 1) :
                           j # i => detectedDevices'[j] = detectedDevices[j] ]_vars

\* the registry is full and the last scan result, a match that passes the
\* filters, came from an address that has no entry
C10_Witness ==
  /\ call.op = "onResult"
  /\ call.ret # 0
  /\ BitAnd8(BUILTIN_SIGNATURES[call.ret].category, categoryFilter, 8) # 0
  /\ call.rssi >= rssiThreshold
  /\ detectedCount = DETECTED_DEVICES_MAX
  /\ EntriesOf(detectedDevices, detectedCount, call.mac) = {}
\* ---------------------------------------------------------------------------
\* Confusion scheduler: "confuse add / remove / clear / start / stop", process
\* ---------------------------------------------------------------------------
ConfusionNames == { NameAirTagRegistered, NameSnapSpectacles, NameBose, NameFitbit }
InstanceCounts == { 1 }

\* _confusionEntries after "confuse add" of the names of a sequence, in order,
\* on the table E
RECURSIVE AddedEntries(_, _)
AddedEntries(E, names) ==
  IF names = << >> THEN E
  ELSE AddedEntries(confuseAddEntries(E, Head(names), 1), Tail(names))

NoEntries == [ i \in AllEntries |-> ZeroConfusionEntry ]

\* the tables from which the exploration starts: empty; the same three devices
\* added in different orders; three devices added and the middle one removed
ConfusionTables ==
  { NoEntries,
    AddedEntries(NoEntries, << NameAirTagRegistered, NameSnapSpectacles, NameBose >>),
    AddedEntries(NoEntries, << NameAirTagRegistered, NameBose, NameSnapSpectacles >>),
    AddedEntries(NoEntries, << NameBose, NameSnapSpectacles, NameAirTagRegistered >>),
    confuseRemoveEntries(
      AddedEntries(NoEntries, << NameAirTagRegistered, NameSnapSpectacles, NameBose >>),
      NameSnapSpectacles) }

\* the table is as built above and "confuse start" has or has not been given;
\* no session, or the first two catalog devices, are being transmitted
InitConfusion ==
  /\ \E k \in { 0, 2 } : sessions = StartedSessions(k)
  /\ confusionEntries \in ConfusionTables
  /\ confusionActive \in { FALSE, getConfusionEntryCount(confusionEntries) > 0 }
  /\ confusionIndex = 0
  /\ totalPacketsSent = 0
  /\ lastConfuseTime = 0
  /\ radio = << >>
  /\ RegistryInit
  /\ MainInit
  /\ clock = 0
  /\ call = NoCall
  /\ calls = 0

NextConfusion ==
  \/ \E name \in ConfusionNames, n \in InstanceCounts : Step(ConfuseAdd(name, n))
  \/ \E name \in ConfusionNames : Step(ConfuseRemove(name))
  \/ Step(ConfuseClear)
  \/ Step(ConfuseStart)
  \/ Step(ConfuseStop)
  \/ \E seed \in RandomSeeds : Step(Process(seed))
  \/ \E d \in TickDeltas : Step(Tick(d))

SpecConfusion == InitConfusion /\ [][NextConfusion]_vars
\* the slots of the enabled entries of E
EnabledSlots(E) == { i \in AllEntries : E[i].enabled }

\* the enabled slots of E in ascending order counted cyclically from slot idx
RECURSIVE SlotsFrom(_, _, _)
SlotsFrom(E, idx, k) ==
  IF k >= TX_CONFUSION_MAX_DEVICES THEN << >>
  ELSE (IF E[(idx + k) % TX_CONFUSION_MAX_DEVICES].enabled
        THEN << (idx + k) % TX_CONFUSION_MAX_DEVICES >> ELSE << >>)
       \o SlotsFrom(E, idx, k + 1)
CyclicOrder(E, idx) == SlotsFrom(E, idx, 0)

\* the confusion bursts among the radio calls r: one start_advertising each
ConfusionStarts(r) ==
  SelectSeq(r, LAMBDA c : c.kind = "confusion" /\ c.op = "start_advertising")

\* a is b rotated
SameCycle(a, b) ==
  /\ Len(a) = Len(b)
  /\ \/ Len(a) = 0
     \/ \E k \in 0..(Len(a) - 1) :
          \A i \in 1..Len(a) : a[i] = b[((i - 1 + k) % Len(a)) + 1]

\* the device names of the enabled entries of E in the order of their slots
DeviceCycle(E) == [ i \in 1..Len(CyclicOrder(E, 0)) |-> E[CyclicOrder(E, 0)[i]].deviceName ]

\* the orders in which the devices of a set can be added
AddOrders(names) ==
  { f \in [ 1..Cardinality(names) -> names ] : \A i, j \in DOMAIN f : i # j => f[i] # f[j] }

\* the step is a process() call that is a confusion tick with an enabled entry
ConfusionTick ==
  /\ call'.op = "process"
  /\ confusionActive
  /\ clock - lastConfuseTime >= CONFUSION_PERIOD_MS
  /\ EnabledSlots(confusionEntries) # {}

\* each tick transmits the first entry of the cyclic order and rotates it
TickFollowsCycle ==
  ConfusionTick =>
    LET order == CyclicOrder(confusionEntries, confusionIndex) IN
    /\ Len(ConfusionStarts(radio')) = 1
    /\ ConfusionStarts(radio')[1].slot = Head(order)
    /\ CyclicOrder(confusionEntries', confusionIndex') = Append(Tail(order), Head(order))

\* C11: while confusion mode is active and the enabled set does not change,
\* consecutive ticks transmit the enabled entries in one fixed cyclic order,
\* each exactly once per |enabled| ticks and none skipped, and that order is
\* the same whatever the order in which the entries were added.
C11_RoundRobin ==
  [][ /\ TickFollowsCycle
      /\ confusionActive =>
           \A f \in AddOrders({ confusionEntries[i].deviceName :
                                  i \in EnabledSlots(confusionEntries) }) :
              SameCycle(DeviceCycle(confusionEntries), DeviceCycle(AddedEntries(NoEntries, f)))
    ]_vars

\* C11 (amended): while confusion mode is active, the enabled set does not
\* change and "confuse start" is not given again, consecutive ticks transmit
\* the enabled entries in ascending slot order, cyclically: each exactly once
\* per |enabled| ticks, none skipped.  The slot of an entry is the first free
\* slot at the time it was added, so the order follows the adds and removes.
C11_SlotOrder == [][ TickFollowsCycle ]_vars

\* a tick transmitted one of three enabled entries
C11_Witness ==
  /\ call.op = "process"
  /\ confusionActive
  /\ Cardinality(EnabledSlots(confusionEntries)) = 3
  /\ Len(ConfusionStarts(radio)) = 1
  /\ confusionIndex = (ConfusionStarts(radio)[1].slot + 1) % TX_CONFUSION_MAX_DEVICES

RECURSIVE OnAir(_, _)
OnAir(r, n) ==
  IF n = 0 THEN 0
  ELSE OnAir(r, n - 1) + (IF r[n].op = "start_advertising" THEN 1
                          ELSE IF r[n].op = "stop_advertising" THEN -1 ELSE 0)

BurstOps == << "set_rand_addr", "config_adv_data_raw", "start_advertising", "stop_advertising" >>

\* the sessions that a process() call at the current time finds due
DueSessions == { i \in AllSlots : sessions[i].active
                                  /\ clock - sessions[i].lastTxTime >= sessions[i].intervalMs }

\* C14: the radio calls of a process() call are whole bursts one after the
\* other, each the four calls set address, configure payload, start, stop for
\* one session or one confusion entry; the advertiser is never started while
\* it is running, and it is stopped when process() returns, also when several
\* sessions and the confusion scheduler are due in the same call.
C14_OneBurstAtATime ==
  [][ call'.op = "process" =>
        /\ Len(radio') % 4 = 0
        /\ \A n \in 1..Len(radio') :
             /\ radio'[n].op = BurstOps[((n - 1) % 4) + 1]
             /\ OnAir(radio', n) \in { 0, 1 }
             /\ LET first == radio'[n - ((n - 1) % 4)] IN
                /\ radio'[n].kind = first.kind
                /\ radio'[n].slot = first.slot
                /\ radio'[n].addr = first.addr
                /\ radio'[n].data = first.data
        /\ OnAir(radio', Len(radio')) = 0
        /\ \A i \in DueSessions :
             Len(SelectSeq(radio', LAMBDA c : c.kind = "tx" /\ c.slot = i
                                              /\ c.op = "start_advertising")) = 1
    ]_vars

\* two sessions and the confusion scheduler transmitted in the same process()
C14_Witness ==
  /\ call.op = "process"
  /\ Len(SelectSeq(radio, LAMBDA c : c.kind = "tx" /\ c.op = "start_advertising")) >= 2
  /\ Len(SelectSeq(radio, LAMBDA c : c.kind = "confusion" /\ c.op = "start_advertising")) = 1
  /\ OnAir(radio, Len(radio)) = 0

\* ---------------------------------------------------------------------------
\* The forger applied to signatures outside the catalog
\* ---------------------------------------------------------------------------
\* uint8_t advData[31] of transmitPacket and transmitConfusionPacket
ADV_BUFFER_LEN == 31
\* uint8_t payload_pattern[8]
PATTERN_MAX == 8

FutureCompanyIds == { 0, 76, 65535 }
FuturePatternOffsets == { -1, 0, 3 }
FutureServiceUuids == { 0, 65194, 65535 }
FutureSignatures ==
  { [ ZeroSignature EXCEPT !.company_id = c,
                           !.payload_pattern = << 76, 0, 7, 25, 1, 2, 3, 4 >>,
                           !.pattern_length = len, !.pattern_offset = off,
                           !.service_uuid = u,
                           !.flags = SIG_FLAG_TRANSMITTABLE ] :
      c \in FutureCompanyIds, len \in 0..PATTERN_MAX, off \in FuturePatternOffsets,
      u \in FutureServiceUuids }

ForgeInputs ==
  { [ NoCall EXCEPT !.op = "build", !.sig = sig, !.seed = seed ] :
      sig \in FutureSignatures, seed \in RandomSeeds }

\* buildAdvertisingData(call.sig, advData, &advLen): payload is advData[0..advLen-1]
BuildAdvertisement ==
  LET advData == buildAdvertisingData(call.sig, RandomBytes(call.seed, 0, 4)) IN
  /\ call.op = "build"
  /\ call' = [ call EXCEPT !.op = "buildAdvertisingData", !.payload = advData,
                           !.ret = IF Len(advData) > 0 THEN 1 ELSE 0 ]
  /\ UNCHANGED << txVars, clock, regVars >>

InitForge ==
  /\ TXManagerInit
  /\ RegistryInit
  /\ MainInit
  /\ clock = 0
  /\ call \in ForgeInputs
  /\ calls = 0

NextForge == Step(BuildAdvertisement)

SpecForge == InitForge /\ [][NextForge]_vars

\* C15: for every signature with a pattern of 0 to 8 bytes, whatever its
\* company id, pattern offset and service UUID, the forger writes at most 31
\* bytes: the length it reports, which is one past the last byte it wrote, is
\* within the 31-byte buffer of its callers.
C15_FitsBuffer ==
  call.op = "buildAdvertisingData" =>
    /\ Len(call.payload) <= ADV_BUFFER_LEN
    /\ Len(call.payload) >= 3
    /\ call.ret = 1

\* the longest output: an 8-byte pattern at offset 0 and a service UUID
C15_Witness ==
  /\ call.op = "buildAdvertisingData"
  /\ call.sig.company_id # 0
  /\ call.sig.pattern_length = PATTERN_MAX
  /\ call.sig.pattern_offset = 0
  /\ call.sig.service_uuid # 0
  /\ Len(call.payload) = 3 + 2 + PATTERN_MAX + 4

\* ---------------------------------------------------------------------------
\* loop() of main.cpp: one input, process(), the scan decision, delay
\* ---------------------------------------------------------------------------
BLE_SCAN_DURATION_SEC == 1
SCAN_PERIOD_MS == 5000
SCAN_STOP_DELAY_MS == 50
TOUCH_FEEDBACK_DELAY_MS == 50
LOOP_DELAY_MS == 10

\* the condition under which loop() starts a scan burst
\* ScanDue that does not look at txActive
ScanDue_IgnoreTx(scanFlag, active, elapsed) == scanFlag /\ elapsed > SCAN_PERIOD_MS

ScanDue(scanFlag, active, elapsed) == scanFlag /\ ~active /\ elapsed > SCAN_PERIOD_MS

\* an input of one iteration: a serial command line or a touch, or none
Command(op, name, intervalMs, count) ==
  [ op |-> op, name |-> name, intervalMs |-> intervalMs, count |-> count ]
NoCommand == Command("none", << >>, 0, 0)

\* pBLEScan->stop(); delay(50) when scanning
stopScanDelay(g) == IF g.scanning THEN SCAN_STOP_DELAY_MS ELSE 0

\* processSerialCommand / handleTouch applied to
\* g = [m: the TXManager members and millis(), scanning, txActive]
commandResult(g, cmd, seed) ==
  LET m == g.m IN
  CASE cmd.op = "SCAN START" -> [ g EXCEPT !.scanning = TRUE ]
    [] cmd.op = "SCAN STOP" -> [ g EXCEPT !.scanning = FALSE ]
    [] cmd.op = "TX START" ->
         [ g EXCEPT !.m.clk = m.clk + stopScanDelay(g),
                    !.m.S = startTxSessions(m.S, cmd.name, cmd.intervalMs, cmd.count,
                                            FALSE, seed),
                    !.txActive = IF startTxReturn(m.S, cmd.name) >= 0 THEN TRUE
                                 ELSE g.txActive ]
    [] cmd.op = "TX STOP" ->
         LET slot == findSession(m.S, cmd.name)
             S == IF slot = -1 THEN m.S ELSE [ m.S EXCEPT ![slot].active = FALSE ]
         IN [ g EXCEPT !.m.S = S,
                       !.txActive = IF slot = -1 THEN g.txActive ELSE getActiveCount(S) > 0 ]
    [] cmd.op = "TX STOP ALL" ->
         [ g EXCEPT !.m.S = [ i \in DOMAIN m.S |-> [ m.S[i] EXCEPT !.active = FALSE ] ],
                    !.m.active = FALSE,
                    !.txActive = FALSE ]
    [] cmd.op = "CONFUSE ADD" ->
         [ g EXCEPT !.m.E = confuseAddEntries(m.E, cmd.name, cmd.count) ]
    [] cmd.op = "CONFUSE START" ->
         LET entryCount == getConfusionEntryCount(m.E) IN
         [ g EXCEPT !.m.clk = m.clk + stopScanDelay(g),
                    !.m.active = IF entryCount = 0 THEN m.active ELSE TRUE,
                    !.m.index = IF entryCount = 0 THEN m.index ELSE 0,
                    !.txActive = IF entryCount = 0 THEN g.txActive ELSE TRUE ]
    [] cmd.op = "CONFUSE STOP" ->
         [ g EXCEPT !.m.active = FALSE, !.txActive = getActiveCount(m.S) > 0 ]
    [] cmd.op = "touch STOP" ->
         IF getActiveCount(m.S) > 0 \/ m.active
         THEN [ g EXCEPT !.m.clk = m.clk + TOUCH_FEEDBACK_DELAY_MS,
                         !.m.S = IF m.active THEN m.S
                                 ELSE [ i \in DOMAIN m.S |-> [ m.S[i] EXCEPT !.active = FALSE ] ],
                         !.m.active = FALSE,
                         !.txActive = FALSE ]
         ELSE g
    [] OTHER -> g

\* the rest of loop() after process() has returned r, for the globals
\* g = [scanning, txActive, ...] left by the input and last = lastScanTime.
\* busy: the time the iteration spends in touch polling, serial output and
\* drawing.
loopResult(g, r, last, busy) ==
  LET active == getActiveCount(r.S) > 0 \/ r.active
      scan == ScanDue(g.scanning, active, r.clk - last)
  IN [ r |-> r,
       scanning |-> g.scanning,
       txActive |-> active,
       last |-> IF scan THEN r.clk ELSE last,
       started |-> scan,
       clk |-> r.clk + (IF scan THEN BLE_SCAN_DURATION_SEC * 1000 ELSE 0)
                     + busy + LOOP_DELAY_MS ]

\* the state that an iteration of loop() with the outcome n leaves
LoopStore(n, cmd, seed) ==
  /\ sessions' = n.r.S
  /\ confusionEntries' = n.r.E
  /\ confusionActive' = n.r.active
  /\ confusionIndex' = n.r.index
  /\ totalPacketsSent' = n.r.total
  /\ lastConfuseTime' = n.r.last
  /\ radio' = n.r.air
  /\ scanning' = n.scanning
  /\ txActive' = n.txActive
  /\ lastScanTime' = n.last
  /\ scanStarted' = n.started
  /\ clock' = n.clk
  /\ call' = [ NoCall EXCEPT !.op = "loop", !.cmd = cmd.op, !.name = cmd.name,
                             !.seed = seed ]
  /\ UNCHANGED regVars

LoopProcess(g, cmd, busy, seed) ==
  LoopStore(loopResult(g, processResult(g.m, seed), lastScanTime, busy), cmd, seed)

\* loop(): the input cmd is handled, then process(), txActive, the scan burst
\* and delay(10).  The scan results reach onResult while start() blocks.
LoopIteration(cmd, busy, seed) ==
  LoopProcess(commandResult([ m |-> Manager, scanning |-> scanning, txActive |-> txActive ],
                            cmd, seed),
              cmd, busy, seed)

\* inputs
LoopNames == { NameAirTagRegistered, NameBose }
LoopCounts == { -1, 2 }
LoopCommands ==
  { Command(op, << >>, 0, 0) :
      op \in { "SCAN START", "SCAN STOP", "TX STOP ALL", "CONFUSE START", "CONFUSE STOP",
               "touch STOP" } }
  \cup { Command("TX START", name, TX_DEFAULT_INTERVAL_MS, count) :
           name \in LoopNames, count \in LoopCounts }
  \cup { Command("TX STOP", NameAirTagRegistered, 0, 0),
         Command("CONFUSE ADD", NameSnapSpectacles, 0, 1) }
LoopBusyMs == 2490
MaxClock == 16000
MaxInputs == 2
LoopEntries == { 0, 2 }

\* the state when setup() has returned and k iterations of loop() have each
\* handled one "CONFUSE ADD"
InitLoop ==
  /\ sessions = [ i \in 0..(TX_MAX_CONCURRENT - 1) |-> ZeroSession ]
  /\ \E k \in LoopEntries :
       /\ confusionEntries =
            AddedEntries(NoEntries, SubSeq(<< NameSnapSpectacles, NameBose >>, 1, k))
       /\ clock = k * LOOP_DELAY_MS
  /\ confusionActive = FALSE
  /\ totalPacketsSent = 0
  /\ confusionIndex = 0
  /\ lastConfuseTime = 0
  /\ radio = << >>
  /\ RegistryInit
  /\ scanning = TRUE
  /\ txActive = FALSE
  /\ lastScanTime = 0
  /\ scanStarted = FALSE
  /\ call = NoCall
  /\ calls = 0

\* an iteration without input that is busy for LoopBusyMs
QuietIteration ==
  /\ clock < MaxClock
  /\ calls' = calls
  /\ \E seed \in StartSeeds : LoopIteration(NoCommand, LoopBusyMs, seed)

\* an iteration with an input, or one that is not busy: at most MaxInputs of them
ShortIteration ==
  /\ clock < MaxClock
  /\ calls < MaxInputs
  /\ calls' = calls + 1
  /\ \E cmd \in LoopCommands \cup { NoCommand }, seed \in StartSeeds :
       LoopIteration(cmd, 0, seed)

NextLoop == QuietIteration \/ ShortIteration

\* a step of QuietIteration, told by what it does to the clock and to the count
\* of inputs: among the steps of NextLoop these are the steps of
\* QuietIteration, and it is enabled exactly when QuietIteration is
QuietStep ==
  /\ clock < MaxClock
  /\ calls' = calls
  /\ clock' \in (clock + 1)..(clock + MaxClock)

\* the Arduino core calls loop() again and again, and every iteration returns
SpecLoop == InitLoop /\ [][NextLoop]_vars /\ WF_clock(QuietStep)

Idle == getActiveCount(sessions) = 0 /\ ~confusionActive

\* C13: an iteration of loop() starts a scan burst only if, after process(),
\* no session is active and confusion mode is off; and from a state in which
\* no session is active, confusion mode is off and the scanning flag is on, a
\* scan burst is started in a later iteration, unless a transmission is started
\* or the scanning flag is cleared first.  The clock of the model stops at
\* MaxClock, so the second part is stated for the states from which the scan
\* period can still elapse.
C13_ScanWhenIdle ==
  /\ [][ (call'.op = "loop" /\ scanStarted') =>
           /\ getActiveCount(sessions') = 0
           /\ ~confusionActive'
           /\ scanning' ]_vars
  /\ (Idle /\ scanning /\ clock <= MaxClock - 2 * SCAN_PERIOD_MS)
       ~> (scanStarted \/ ~Idle \/ ~scanning)

\* a scan burst was started in the iteration in which the last burst of a
\* session with a finite count had been transmitted earlier, after the scan
\* period ran out while the session was active
C13_Witness ==
  /\ call.op = "loop"
  /\ scanStarted
  /\ totalPacketsSent > 0
  /\ Idle

\* ---------------------------------------------------------------------------
\* The TX screen of the combined Arduino sketch (unnamed/part_004): handleTouch
\* ---------------------------------------------------------------------------
\* the loop of the CONFUSE button over getTransmittableSignature(i), from i on
RECURSIVE confuseAddAllIn(_, _, _)
confuseAddAllIn(sigs, E, i) ==
  IF i >= getTransmittableCountIn(sigs) THEN E
  ELSE LET sig == getTransmittableSignatureIn(sigs, i)
           added == IF sig # 0 THEN confuseAddEntriesIn(sigs, E, sigs[sig].name, 1) ELSE E
       IN [ next \in { added } |-> confuseAddAllIn(sigs, next, i + 1) ][added]

\* _confusionEntries after confuseClear() and the loop of the CONFUSE button
confuseButtonEntries(sigs, E) ==
  confuseAddAllIn(sigs, [ i \in AllEntries |-> [ E[i] EXCEPT !.enabled = FALSE ] ], 0)

\* a touch on the rectangle of the STOP / CONFUSE button
SketchTouchButton ==
  LET activeCount == getActiveCount(sessions) IN
  IF activeCount > 0 \/ confusionActive
  THEN /\ sessions' = IF confusionActive THEN sessions
                      ELSE [ i \in AllSlots |-> [ sessions[i] EXCEPT !.active = FALSE ] ]
       /\ confusionActive' = FALSE
       /\ txActive' = FALSE
       /\ call' = [ NoCall EXCEPT !.op = "touch", !.cmd = "STOP" ]
       /\ radio' = << >>
       /\ UNCHANGED << confusionEntries, confusionIndex, totalPacketsSent, lastConfuseTime,
                       clock, regVars, scanning, lastScanTime, scanStarted >>
  ELSE LET E == confuseButtonEntries(SKETCH_BUILTIN_SIGNATURES, confusionEntries)
           entryCount == getConfusionEntryCount(E)
       IN /\ clock' = clock + (IF scanning THEN SCAN_STOP_DELAY_MS ELSE 0)
          /\ confusionEntries' = E
          /\ confusionActive' = (entryCount > 0)
          /\ confusionIndex' = IF entryCount = 0 THEN confusionIndex ELSE 0
          /\ txActive' = TRUE
          /\ call' = [ NoCall EXCEPT !.op = "touch", !.cmd = "CONFUSE", !.ret = entryCount ]
          /\ radio' = << >>
          /\ UNCHANGED << sessions, totalPacketsSent, lastConfuseTime, regVars,
                          scanning, lastScanTime, scanStarted >>

\* a touch on item deviceIdx of the device list
SketchTouchDevice(deviceIdx, seed) ==
  LET sigs == SKETCH_BUILTIN_SIGNATURES
      sig == getTransmittableSignatureIn(sigs, deviceIdx)
      hit == /\ getActiveCount(sessions) = 0
             /\ ~confusionActive
             /\ deviceIdx >= 0
             /\ deviceIdx < getTransmittableCountIn(sigs)
             /\ sig # 0
  IN /\ sessions' = IF hit
                    THEN startTxSessionsIn(sigs, sessions, sigs[sig].name,
                                           TX_DEFAULT_INTERVAL_MS, -1, FALSE, seed)
                    ELSE sessions
     /\ clock' = clock + (IF hit /\ scanning THEN SCAN_STOP_DELAY_MS ELSE 0)
     /\ txActive' = IF hit THEN TRUE ELSE txActive
     /\ call' = [ NoCall EXCEPT !.op = "touch", !.cmd = "device", !.idx = deviceIdx,
                                !.ret = IF hit THEN 1 ELSE 0 ]
     /\ radio' = << >>
     /\ UNCHANGED << confusionEntries, confusionActive, confusionIndex, totalPacketsSent,
                     lastConfuseTime, regVars, scanning, lastScanTime, scanStarted >>

\* the items of the device list, and one past its end
SketchDeviceIndices == 0..getTransmittableCountIn(SKETCH_BUILTIN_SIGNATURES)

\* the state when setup() returns
InitSketch ==
  /\ TXManagerInit
  /\ RegistryInit
  /\ scanning = TRUE
  /\ txActive = FALSE
  /\ lastScanTime = 0
  /\ scanStarted = FALSE
  /\ clock = 0
  /\ call = NoCall
  /\ calls = 0

NextSketch ==
  /\ calls < MaxCalls
  /\ calls' = calls + 1
  /\ \/ SketchTouchButton
     \/ \E deviceIdx \in SketchDeviceIndices, seed \in StartSeeds :
          SketchTouchDevice(deviceIdx, seed)

SpecSketch == InitSketch /\ [][NextSketch]_vars

\* the transmittable signatures of the sketch's catalog
SketchTransmittable ==
  { i \in 1..SKETCH_BUILTIN_SIGNATURE_COUNT :
      HasFlag(SKETCH_BUILTIN_SIGNATURES[i].flags, SIG_FLAG_TRANSMITTABLE) }

\* C16: after a touch on the CONFUSE button while nothing is transmitted,
\* confusion mode is active and every transmittable signature of the catalog,
\* 20 of them, is an enabled confusion entry (so that the round robin reaches
\* each of them within one cycle).
C16_ConfuseAll ==
  (call.op = "touch" /\ call.cmd = "CONFUSE") =>
    /\ confusionActive
    /\ Cardinality(SketchTransmittable) = 20
    /\ \A i \in SketchTransmittable :
         \E k \in AllEntries : confusionEntries[k].enabled /\ confusionEntries[k].sig = i

\* ---------------------------------------------------------------------------
\* Sessions with a finite count
\* ---------------------------------------------------------------------------
\* the bursts of session slot i among the radio calls air
SessionBursts(air, i) ==
  Cardinality({ k \in 1..Len(air) :
                  air[k].op = "start_advertising" /\ air[k].kind = "tx" /\ air[k].slot = i })

\* the inputs that stop sessions
StopCommands == { "TX STOP", "TX STOP ALL", "touch STOP" }

\* the finite counts among the inputs
FiniteCounts == { n \in LoopCounts : n > 0 }

\* C17: a session started with a count N > 0 and not stopped transmits N
\* bursts.  In every iteration of loop() that does not handle a stop input, a
\* session that is active with a remaining count > 0 gets at most one burst;
\* packetsSent rises and remainingCount falls by the number of its bursts, and
\* it is inactive afterwards exactly if the remaining count has reached zero.
\* So packetsSent + remainingCount stays N, and a session that has run out has
\* sent N.  With loop() called again and again the session becomes inactive.
\* The clock of the model stops at MaxClock, so the last part is stated for the
\* states from which N intervals can still elapse.
C17_FiniteCount ==
  /\ [][ \A i \in AllSlots :
           (/\ sessions[i].active
            /\ sessions[i].remainingCount > 0
            /\ call'.cmd \notin StopCommands)
           => LET b == SessionBursts(radio', i) IN
              /\ b \in { 0, 1 }
              /\ sessions'[i].packetsSent = sessions[i].packetsSent + b
              /\ sessions'[i].remainingCount = sessions[i].remainingCount - b
              /\ sessions'[i].active = (sessions'[i].remainingCount > 0) ]_vars
  /\ [](\A i \in AllSlots :
          (sessions[i].sig # 0 /\ sessions[i].remainingCount >= 0)
          => /\ sessions[i].packetsSent + sessions[i].remainingCount \in FiniteCounts
             /\ sessions[i].active => sessions[i].remainingCount > 0)
  /\ \A i \in AllSlots :
       (/\ sessions[i].active
        /\ sessions[i].remainingCount > 0
        /\ clock <= MaxClock - 2 * SCAN_PERIOD_MS)
       ~> ~sessions[i].active

\* the last burst of a session started with a count of 2 has just been
\* transmitted: the session is inactive with two packets sent and none left
C17_Witness ==
  /\ call.op = "loop"
  /\ call.cmd = "none"
  /\ \E i \in AllSlots :
       /\ SessionBursts(radio, i) = 1
       /\ ~sessions[i].active
       /\ sessions[i].remainingCount = 0
       /\ sessions[i].packetsSent = 2

\* ---------------------------------------------------------------------------
\* Continuous sessions
\* ---------------------------------------------------------------------------
\* C18: a session with a remaining count < 0 is not deactivated by process():
\* after every call of process() it is still active and its remaining count is
\* what it was, whether the call transmitted a burst for it or not.  Of all the
\* operations only stopTx and stopAll clear its active flag, and none changes
\* its remaining count.
C18_RunsUntilStopped ==
  [][ \A i \in AllSlots :
        (sessions[i].active /\ sessions[i].remainingCount < 0)
        => /\ sessions'[i].remainingCount = sessions[i].remainingCount
           /\ sessions'[i].active \/ call'.op \in { "stopTx", "stopAll" }
           /\ call'.op = "process" =>
                /\ sessions'[i].active
                /\ sessions'[i].packetsSent =
                     sessions[i].packetsSent + SessionBursts(radio', i) ]_vars

\* process() has transmitted the second burst of a continuous session, which
\* is still active
C18_Witness ==
  /\ call.op = "process"
  /\ \E i \in AllSlots :
       /\ SessionBursts(radio, i) = 1
       /\ sessions[i].active
       /\ sessions[i].remainingCount < 0
       /\ sessions[i].packetsSent = 2

\* ---------------------------------------------------------------------------
\* Stopped sessions
\* ---------------------------------------------------------------------------
\* C19: a stopped session transmits no more.  stopTx(name) that returns 0
\* clears the active flag of the session it stops, the first active session of
\* that name, stopAll clears
\* every active flag, and neither transmits a burst or changes packetsSent.
\* For a session that is not active, every operation other than startTx, and
\* process() in particular, transmits no burst, leaves packetsSent as it is and
\* leaves the session inactive.
C19_StoppedStaysSilent ==
  [][ /\ (call'.op = "stopTx" /\ call'.ret = 0) =>
           /\ \E i \in AllSlots :
                sessions[i].active /\ strcasecmp(sessions[i].deviceName, call'.name) = 0
           /\ \A i \in AllSlots :
                (/\ sessions[i].active
                 /\ strcasecmp(sessions[i].deviceName, call'.name) = 0
                 /\ \A k \in 0..(i - 1) :
                      ~(/\ sessions[k].active
                        /\ strcasecmp(sessions[k].deviceName, call'.name) = 0))
                => ~sessions'[i].active
      /\ call'.op = "stopAll" => \A i \in AllSlots : ~sessions'[i].active
      /\ call'.op \in { "stopTx", "stopAll" } =>
           /\ radio' = << >>
           /\ \A i \in AllSlots : sessions'[i].packetsSent = sessions[i].packetsSent
      /\ \A i \in AllSlots :
           (~sessions[i].active /\ call'.op # "startTx")
           => /\ SessionBursts(radio', i) = 0
              /\ sessions'[i].packetsSent = sessions[i].packetsSent
              /\ ~sessions'[i].active ]_vars

\* process() has transmitted bursts for other sessions and none for a
\* continuous session that was stopped, although its interval has elapsed
C19_Witness ==
  /\ call.op = "process"
  /\ \E i, j \in AllSlots :
       /\ sessions[i].sig # 0
       /\ sessions[i].remainingCount < 0
       /\ ~sessions[i].active
       /\ clock - sessions[i].lastTxTime >= sessions[i].intervalMs
       /\ SessionBursts(radio, i) = 0
       /\ SessionBursts(radio, j) = 1

\* ---------------------------------------------------------------------------
\* Session addresses: sessions with and without randomMacPerPacket, next to
\* confusion mode
\* ---------------------------------------------------------------------------
AddressNames == { NameAirTagRegistered, NameBose }

\* _sessions after startTx of a session with a stable address and of one with
\* an address per packet
AddressSessions ==
  startTxSessions(
    startTxSessions([ i \in 0..(TX_MAX_CONCURRENT - 1) |-> ZeroSession ],
                    NameAirTagRegistered, TX_DEFAULT_INTERVAL_MS, -1, FALSE, 3),
    NameBose, TX_DEFAULT_INTERVAL_MS, -1, TRUE, 0)

InitAddress ==
  /\ sessions \in { [ i \in 0..(TX_MAX_CONCURRENT - 1) |-> ZeroSession ], AddressSessions }
  /\ confusionEntries \in { NoEntries, AddedEntries(NoEntries, << NameSnapSpectacles >>) }
  /\ confusionActive \in { FALSE, getConfusionEntryCount(confusionEntries) > 0 }
  /\ confusionIndex = 0
  /\ totalPacketsSent = 0
  /\ lastConfuseTime = 0
  /\ radio = << >>
  /\ RegistryInit
  /\ MainInit
  /\ clock = 0
  /\ call = NoCall
  /\ calls = 0

NextAddress ==
  \/ \E name \in AddressNames, randomMac \in BOOLEAN, seed \in StartSeeds :
        Step(StartTx(name, TX_DEFAULT_INTERVAL_MS, -1, randomMac, seed))
  \/ \E name \in AddressNames : Step(StopTx(name))
  \/ \E seed \in RandomSeeds : Step(Process(seed))
  \/ \E d \in TickDeltas : Step(Tick(d))

SpecAddress == InitAddress /\ [][NextAddress]_vars

\* the addresses that the bursts of session slot i among the radio calls air
\* were transmitted from
BurstAddresses(air, i) ==
  { air[k].addr : k \in { n \in 1..Len(air) : air[n].kind = "tx" /\ air[n].slot = i } }

\* the addresses that generateRandomMac can give session slot i in process()
FreshAddresses(i) ==
  { generateRandomMac(RandomBytes(seed, 16 * i + 4, 6)) : seed \in RandomSeeds }

\* C20: an active session without randomMacPerPacket keeps its currentMac
\* through every operation, that is through the calls of process() with their
\* bursts of other sessions and of confusion mode and through the start and the
\* stop of other sessions, and its bursts are transmitted from this address.
\* An active session with randomMacPerPacket keeps its currentMac in every
\* step without a burst of its own, and a burst of its own is transmitted from
\* an address that generateRandomMac has made for this burst, which is its
\* currentMac afterwards.
C20_AddressPerSession ==
  [][ \A i \in AllSlots :
        sessions[i].active =>
          /\ BurstAddresses(radio', i) \subseteq { sessions'[i].currentMac }
          /\ (~sessions[i].randomMacPerPacket \/ SessionBursts(radio', i) = 0)
               => sessions'[i].currentMac = sessions[i].currentMac
          /\ (sessions[i].randomMacPerPacket /\ SessionBursts(radio', i) > 0)
               => sessions'[i].currentMac \in FreshAddresses(i) ]_vars

\* one call of process() with confusion mode active has transmitted the second
\* burst of a session with a stable address from the address of its first
\* burst, a burst of a session with randomMacPerPacket from a new address, and
\* a confusion burst
C20_Witness ==
  /\ call.op = "process"
  /\ \E k \in 1..Len(radio) : radio[k].kind = "confusion"
  /\ \E i, j \in AllSlots :
       /\ ~sessions[i].randomMacPerPacket
       /\ sessions[i].packetsSent = 2
       /\ BurstAddresses(radio, i) = { AddressSessions[i].currentMac }
       /\ sessions[j].randomMacPerPacket
       /\ sessions[j].packetsSent = 2
       /\ BurstAddresses(radio, j) = { sessions[j].currentMac }
       /\ sessions[j].currentMac # AddressSessions[j].currentMac

\* ---------------------------------------------------------------------------
\* Medical devices and the default category filter
\* ---------------------------------------------------------------------------
\* the registry entries of category MEDICAL
MedicalEntries(D, n) == { i \in 0..(n - 1) : BitAnd8(D[i].category, CAT_MEDICAL, 8) # 0 }

\* the registry entries that a step has written
WrittenEntries ==
  { i \in 0..(detectedCount' - 1) : i >= detectedCount \/ detectedDevices'[i] # detectedDevices[i] }

\* C21: with the default category filter in force, a scan result creates no
\* registry entry of category MEDICAL, and a registry without such an entry
\* has none after any step that leaves the filter at its default, so that no
\* such entry is there to be updated: from a start with an empty registry no
\* entry of category MEDICAL is created or updated while the filter keeps its
\* default value.
C21_MedicalOffByDefault ==
  [][ categoryFilter = DEFAULT_CATEGORY_FILTER =>
        /\ call'.op = "onResult" =>
             \A i \in WrittenEntries :
               i >= detectedCount => BitAnd8(detectedDevices'[i].category, CAT_MEDICAL, 8) = 0
        /\ (/\ categoryFilter' = DEFAULT_CATEGORY_FILTER
            /\ MedicalEntries(detectedDevices, detectedCount) = {})
           => /\ MedicalEntries(detectedDevices', detectedCount') = {}
              /\ \A i \in WrittenEntries :
                   BitAnd8(detectedDevices'[i].category, CAT_MEDICAL, 8) = 0 ]_vars

\* an advertisement of a medical device has arrived above the signal floor
\* with the default filter in force, after a tracker was registered, and the
\* registry holds the tracker alone
C21_Witness ==
  /\ call.op = "onResult"
  /\ call.ret # 0
  /\ BUILTIN_SIGNATURES[call.ret].category = CAT_MEDICAL
  /\ call.rssi >= rssiThreshold
  /\ categoryFilter = DEFAULT_CATEGORY_FILTER
  /\ detectedCount = 1
  /\ detectedDevices[0].category = CAT_TRACKER

\* ---------------------------------------------------------------------------
\* The matcher: first match wins
\* ---------------------------------------------------------------------------
\* the catalog signatures whose match predicate holds for the advertisement
MatchingSignatures(payload) ==
  { i \in 1..BUILTIN_SIGNATURE_COUNT :
      SigMatched(BUILTIN_SIGNATURES[i], payload, ParseMfgData(payload, 0)) }

\* C22: matchSignature returns the catalog signature of the lowest index among
\* those whose match predicate holds for the advertisement, whether or not a
\* later one matches on more of its fields, and returns no signature exactly
\* when the predicate holds for none.
C22_FirstMatchWins ==
  call.op = "matchSignature" =>
    LET hits == MatchingSignatures(call.payload) IN
    /\ (call.ret = 0) <=> (hits = {})
    /\ call.ret # 0 => /\ call.ret \in hits
                       /\ \A k \in hits : call.ret <= k

\* the signature returned matched on its company id alone, and a later
\* signature of the catalog has its pattern in the advertisement
C22_Witness ==
  /\ call.op = "matchSignature"
  /\ call.ret # 0
  /\ ~PatternMatch(BUILTIN_SIGNATURES[call.ret], call.payload)
  /\ \E k \in MatchingSignatures(call.payload) :
       k > call.ret /\ PatternMatch(BUILTIN_SIGNATURES[k], call.payload)

\* ---------------------------------------------------------------------------
\* The matcher: company id and pattern without EXACT_MATCH
\* ---------------------------------------------------------------------------
\* the signature of the scenario: company id 0x004C, pattern 4C 00 07 19 at
\* offset 0, COMPANY_ID and PAYLOAD set, EXACT_MATCH not set
ScenarioSignature ==
  [ ZeroSignature EXCEPT !.company_id = 76,
                         !.payload_pattern = << 76, 0, 7, 25, 0, 0, 0, 0 >>,
                         !.pattern_length = 4, !.pattern_offset = 0,
                         !.threat_level = THREAT_LOW, !.category = CAT_TRACKER,
                         !.flags = SIG_FLAG_COMPANY_ID + SIG_FLAG_PAYLOAD ]

\* the advertisement of the scenario: 02 01 06 06 FF 4C 00 07 19 AA
ScenarioPayload == << 2, 1, 6, 6, 255, 76, 0, 7, 25, 170 >>

\* C23: a signature with COMPANY_ID and PAYLOAD set and EXACT_MATCH not set
\* matches every advertisement whose manufacturer data carries its company
\* id, whether its pattern is found or not; the advertisement
\* 02 01 06 06 FF 4C 00 07 19 AA is matched by the signature with company id
\* 0x004C and the pattern 4C 00 07 19 at offset 0.
C23_CompanyHitSuffices ==
  call.op = "matchOne" =>
    /\ (/\ HasFlag(call.sig.flags, SIG_FLAG_COMPANY_ID)
        /\ HasFlag(call.sig.flags, SIG_FLAG_PAYLOAD)
        /\ ~HasFlag(call.sig.flags, SIG_FLAG_EXACT_MATCH)
        /\ CompanyMatch(call.sig, call.payload))
       => call.ret = 1
    /\ (call.sig = ScenarioSignature /\ call.payload = ScenarioPayload) => call.ret = 1

\* the scenario: the signature is returned for an advertisement that does not
\* have the pattern at the signature's offset
C23_Witness ==
  /\ call.op = "matchOne"
  /\ call.sig = ScenarioSignature
  /\ call.payload = ScenarioPayload
  /\ ~PatternFound(call.sig, call.payload)
  /\ call.ret = 1

\* ---------------------------------------------------------------------------
\* The matcher and the forger applied to two signatures that differ in one field
\* ---------------------------------------------------------------------------
FlagCompanyIds == { 0, 76 }
FlagServiceUuids == { 0, 65194 }
FlagPatterns == { << 76, 0, 7, 25, 0, 0, 0, 0 >>, << 236, 254, 7, 25, 0, 0, 0, 0 >> }
FlagPatternLengths == { 0, 4 }
FlagPatternOffsets == { -1, 0 }
FlagSets ==
  { c + p + u + x : c \in { 0, SIG_FLAG_COMPANY_ID }, p \in { 0, SIG_FLAG_PAYLOAD },
                    u \in { 0, SIG_FLAG_SERVICE_UUID }, x \in { 0, SIG_FLAG_EXACT_MATCH } }
FlagSignatures ==
  { [ ZeroSignature EXCEPT !.company_id = c, !.payload_pattern = pat,
                           !.pattern_length = len, !.pattern_offset = off,
                           !.service_uuid = u, !.flags = f ] :
      c \in FlagCompanyIds, pat \in FlagPatterns, len \in FlagPatternLengths,
      off \in FlagPatternOffsets, u \in FlagServiceUuids, f \in FlagSets }

\* the signatures that differ from a in the company id, in the pattern (bytes,
\* length, offset) or in the service UUID only
OtherCompany(a) == { [ a EXCEPT !.company_id = c ] : c \in FlagCompanyIds \ { a.company_id } }
OtherPattern(a) ==
  { [ a EXCEPT !.payload_pattern = pat, !.pattern_length = len, !.pattern_offset = off ] :
      pat \in FlagPatterns, len \in FlagPatternLengths, off \in FlagPatternOffsets }
  \ { a }
OtherUuid(a) == { [ a EXCEPT !.service_uuid = u ] : u \in FlagServiceUuids \ { a.service_uuid } }

\* the signatures that differ from a in one field, and a does not have the flag of it
UnflaggedVariants(a) ==
  (IF HasFlag(a.flags, SIG_FLAG_COMPANY_ID) THEN {} ELSE OtherCompany(a))
  \cup (IF HasFlag(a.flags, SIG_FLAG_PAYLOAD) THEN {} ELSE OtherPattern(a))
  \cup (IF HasFlag(a.flags, SIG_FLAG_SERVICE_UUID) THEN {} ELSE OtherUuid(a))

FlagPayloads ==
  { << 2, 1, 6, 6, 255, 76, 0, 7, 25, 170 >>,   \* company id 0x004C, first pattern at offset 5
    << 76, 0, 7, 25 >>,                         \* first pattern at offset 0
    << 236, 254, 7, 25 >>,                      \* second pattern at offset 0
    << 3, 255, 0, 0 >>,                         \* company id 0
    << 2, 1, 6 >> }

\* the inputs for the signature a and a variant of it
FlagInputsOf(a) ==
  { [ NoCall EXCEPT !.op = "match", !.sig = a, !.other = b, !.payload = payload ] :
      b \in UnflaggedVariants(a), payload \in FlagPayloads }
  \cup { [ NoCall EXCEPT !.op = "build", !.sig = a, !.other = b, !.seed = seed ] :
           b \in UnflaggedVariants(a), seed \in StartSeeds }

FlagInputs == UNION { FlagInputsOf(a) : a \in FlagSignatures }

\* the matching loop run over a table holding call.sig, and over one holding call.other
MatchBoth ==
  /\ call.op = "match"
  /\ call' = [ call EXCEPT !.op = "matchBoth",
                           !.pair = << matchSignatureIn(<< call.sig >>, call.payload),
                                       matchSignatureIn(<< call.other >>, call.payload) >> ]
  /\ UNCHANGED << txVars, clock, regVars >>

\* buildAdvertisingData for call.sig and for call.other, on the same random bytes
BuildBoth ==
  /\ call.op = "build"
  /\ call' = [ call EXCEPT !.op = "buildBoth",
                           !.pair = << buildAdvertisingData(call.sig, RandomBytes(call.seed, 0, 4)),
                                       buildAdvertisingData(call.other, RandomBytes(call.seed, 0, 4)) >> ]
  /\ UNCHANGED << txVars, clock, regVars >>

InitFlags ==
  /\ TXManagerInit
  /\ RegistryInit
  /\ MainInit
  /\ clock = 0
  /\ call \in FlagInputs
  /\ calls = 0

NextFlags ==
  \/ Step(MatchBoth)
  \/ Step(BuildBoth)

SpecFlags == InitFlags /\ [][NextFlags]_vars

\* the records of a payload as the sequence of their length and type bytes
RECURSIVE RecordStructure(_, _)
RecordStructure(payload, idx) ==
  IF idx >= Len(payload) THEN << >>
  ELSE << << payload[idx + 1], IF idx + 2 <= Len(payload) THEN payload[idx + 2] ELSE -1 >> >>
       \o (IF payload[idx + 1] = 0 THEN << >>
           ELSE RecordStructure(payload, idx + payload[idx + 1] + 1))

\* number of data bytes of the manufacturer record that the forger builds
MfgDataLength(sig) ==
  IF sig.pattern_length > 0 /\ sig.pattern_offset = 0 THEN sig.pattern_length ELSE 6

\* C24: for two signatures that differ only in a field whose flag is not set
\* (the company id without COMPANY_ID, the pattern without PAYLOAD, the service
\* UUID without SERVICE_UUID), the matcher gives the same result on every
\* advertisement and the forger builds the same record structure.
C24_UnsetFieldIgnored ==
  /\ call.op = "matchBoth" => call.pair[1] = call.pair[2]
  /\ call.op = "buildBoth" =>
       RecordStructure(call.pair[1], 0) = RecordStructure(call.pair[2], 0)

\* C24 (amended): for two such signatures the matcher gives the same result
\* on every advertisement.  The forger does not read these flags: it builds
\* the manufacturer record when company_id is not 0 and the service UUID
\* record when service_uuid is not 0, and the pattern sets the length of the
\* manufacturer record when its length is > 0 and its offset 0; so it builds
\* the same record structure for the two signatures exactly when they agree on
\* company_id being 0, on service_uuid being 0 and, with a company id, on the
\* length of the manufacturer record.
C24_FlagsGateMatcherOnly ==
  /\ call.op = "matchBoth" => call.pair[1] = call.pair[2]
  /\ call.op = "buildBoth" =>
       (RecordStructure(call.pair[1], 0) = RecordStructure(call.pair[2], 0)
        <=> /\ (call.sig.company_id = 0) <=> (call.other.company_id = 0)
            /\ (call.sig.service_uuid = 0) <=> (call.other.service_uuid = 0)
            /\ call.sig.company_id # 0 =>
                 MfgDataLength(call.sig) = MfgDataLength(call.other))

\* two signatures without COMPANY_ID, with the company ids 0x004C and 0, are
\* offered an advertisement of company 0x004C and neither matches on it
C24_Witness ==
  /\ call.op = "matchBoth"
  /\ ~HasFlag(call.sig.flags, SIG_FLAG_COMPANY_ID)
  /\ call.sig.company_id = 76
  /\ call.other.company_id = 0
  /\ CompanyMatched_AnyFlags(call.sig, ParseMfgData(call.payload, 0))
  /\ call.pair = << 0, 0 >>

\* ---------------------------------------------------------------------------
\* The record scan on malformed advertisements
\* ---------------------------------------------------------------------------
\* the pattern of the signature occurs at some offset of the payload
PatternAnywhere(sig, payload) ==
  \E j \in 0..(Len(payload) - sig.pattern_length) :
     \A k \in 1..sig.pattern_length : payload[j + k] = sig.payload_pattern[k]

\* C25: the record scan reads no byte outside the payload.  It follows the
\* records up to the first one that has length 0 or that does not end within
\* the payload, a record that ends at the last byte being followed like any
\* other: a signature with COMPANY_ID alone matches exactly when the first
\* manufacturer record among the records followed carries its company id.
\* Where the scan stops does not matter to the pattern: a signature with
\* PAYLOAD alone and offset -1 matches exactly when its pattern occurs
\* anywhere in the payload.
C25_ScanStopsQuietly ==
  call.op = "matchOne" =>
    /\ ParseReads(call.payload, 0) \subseteq 0..(Len(call.payload) - 1)
    /\ call.sig.flags = SIG_FLAG_COMPANY_ID =>
         (call.ret = 1 <=> FirstMfgIdIs(call.payload, call.sig.company_id))
    /\ (/\ call.sig.flags = SIG_FLAG_PAYLOAD
        /\ call.sig.pattern_length > 0
        /\ call.sig.pattern_offset = -1)
       => (call.ret = 1 <=> PatternAnywhere(call.sig, call.payload))

\* a signature with COMPANY_ID alone has matched an advertisement whose
\* manufacturer record ends at the last byte of the payload
C25_Witness ==
  /\ call.op = "matchOne"
  /\ call.sig.flags = SIG_FLAG_COMPANY_ID
  /\ call.payload = << 3, 255, 76, 0 >>
  /\ call.ret = 1

\* ---------------------------------------------------------------------------
\* Matches that the filters reject
\* ---------------------------------------------------------------------------
\* C26: a scan result that matched a signature whose category has no bit in
\* common with the category filter, or whose signal level is below the floor,
\* leaves the registry as it was: no entry is added, and an entry that holds
\* the address of the advertisement is not changed.
C26_RejectedLeavesRegistry ==
  [][ (/\ call'.op = "onResult"
       /\ call'.ret # 0
       /\ \/ BitAnd8(BUILTIN_SIGNATURES[call'.ret].category, categoryFilter, 8) = 0
          \/ call'.rssi < rssiThreshold)
      => /\ detectedCount' = detectedCount
         /\ detectedDevices' = detectedDevices ]_vars

\* a match below the signal floor has arrived from an address that has an
\* entry, and the entry still has the signal level of its first detection
C26_Witness ==
  /\ call.op = "onResult"
  /\ call.ret # 0
  /\ BitAnd8(BUILTIN_SIGNATURES[call.ret].category, categoryFilter, 8) # 0
  /\ call.rssi < rssiThreshold
  /\ \E i \in EntriesOf(detectedDevices, detectedCount, call.mac) :
       /\ detectedDevices[i].rssi = -60
       /\ detectedDevices[i].lastSeen = 0
       /\ clock > 0

\* ---------------------------------------------------------------------------
\* The records of a forged payload
\* ---------------------------------------------------------------------------
\* the records that start at idx, each with a length >= 1, end where the payload ends
RECURSIVE RecordsTile(_, _)
RecordsTile(payload, idx) ==
  \/ idx = Len(payload)
  \/ /\ idx < Len(payload)
     /\ payload[idx + 1] >= 1
     /\ idx + payload[idx + 1] + 1 <= Len(payload)
     /\ RecordsTile(payload, idx + payload[idx + 1] + 1)

\* the first n bytes of the pattern of a signature
PatternBytes(sig, n) == [ k \in 1..n |-> sig.payload_pattern[k] ]

\* C27: the forged payload is a sequence of records that ends where the last
\* record ends.  The first is Flags, 02 01 06.  If and only if company_id is
\* not 0 a record of type 0xFF follows: its data is the pattern alone if the
\* pattern has a length > 0 and offset 0, and otherwise the company id, low
\* byte first, then four bytes, which begin with the pattern if the pattern
\* has a length from 1 to 4 and are filler for the rest.  If and only if
\* service_uuid is not 0 the record 03 03 with the UUID, low byte first, ends
\* the payload.  There is no other record.
C27_ForgedRecords ==
  call.op = "buildAdvertisingData" =>
    LET sig == call.sig
        p == call.payload
        n == MfgDataLength(sig)
        mfg == IF sig.company_id = 0 THEN << >> ELSE << << n + 1, 255 >> >>
        uuid == IF sig.service_uuid = 0 THEN << >> ELSE << << 3, 3 >> >>
        data == SubSeq(p, 6, 5 + n)
    IN /\ RecordsTile(p, 0)
       /\ SubSeq(p, 1, 3) = << 2, 1, 6 >>
       /\ RecordStructure(p, 0) = << << 2, 1 >> >> \o mfg \o uuid
       /\ \A k \in 1..Len(p) : p[k] \in 0..255
       /\ sig.company_id # 0 =>
            IF sig.pattern_length > 0 /\ sig.pattern_offset = 0
            THEN data = PatternBytes(sig, sig.pattern_length)
            ELSE /\ data[1] = sig.company_id % 256
                 /\ data[2] = sig.company_id \div 256
                 /\ sig.pattern_length \in 1..4 =>
                      SubSeq(data, 3, 2 + sig.pattern_length)
                        = PatternBytes(sig, sig.pattern_length)
       /\ sig.service_uuid # 0 =>
            SubSeq(p, Len(p) - 3, Len(p))
              = << 3, 3, sig.service_uuid % 256, sig.service_uuid \div 256 >>

\* a payload with the three records: the company id, a pattern of three bytes
\* that is not at offset 0 and one byte of filler, then the service UUID
C27_Witness ==
  /\ call.op = "buildAdvertisingData"
  /\ call.sig.company_id = 76
  /\ call.sig.pattern_length = 3
  /\ call.sig.pattern_offset = 3
  /\ call.sig.service_uuid = 65194
  /\ SubSeq(call.payload, 1, 10) = << 2, 1, 6, 7, 255, 76, 0, 76, 0, 7 >>
  /\ SubSeq(call.payload, 12, 15) = << 3, 3, 170, 254 >>
  /\ Len(call.payload) = 15

\* ---------------------------------------------------------------------------
\* The pace of the bursts of a session
\* ---------------------------------------------------------------------------
\* the slots up to i with a burst among the radio calls air
BurstsUpTo(air, i) == Cardinality({ j \in 0..i : SessionBursts(air, j) > 0 })

\* C28: a call of process makes at most one burst for each session, and one
\* only for a session that is active and whose last transmit time is at least
\* its interval before the time the call started.  The last transmit time is
\* never after the clock, so the unsigned difference is the time that has
\* passed.  After the burst the last transmit time is the clock at the end of
\* the burst, and between the bursts of a session nothing changes it, so the
\* burst of a session that has transmitted before ends at least one interval
\* after its last one ended.
C28_BurstsPaced ==
  [][ /\ \A i \in AllSlots : sessions[i].lastTxTime <= clock
      /\ \A i \in AllSlots :
           (sessions[i].packetsSent > 0 /\ sessions'[i].packetsSent = sessions[i].packetsSent)
             => sessions'[i].lastTxTime = sessions[i].lastTxTime
      /\ call'.op = "process" =>
           \A i \in AllSlots :
             LET n == SessionBursts(radio', i) IN
             /\ n <= 1
             /\ sessions'[i].packetsSent = sessions[i].packetsSent + n
             /\ n = 1 =>
                  /\ sessions[i].active
                  /\ clock - sessions[i].lastTxTime >= sessions[i].intervalMs
                  /\ sessions'[i].lastTxTime
                       = clock + TX_BURST_DELAY_MS * BurstsUpTo(radio', i)
                  /\ sessions'[i].lastTxTime <= clock'
                  /\ sessions[i].packetsSent > 0 =>
                       sessions'[i].lastTxTime - sessions[i].lastTxTime
                         >= sessions[i].intervalMs ]_vars

\* after a call of process a session has made its second burst, one interval
\* and the time of two bursts after the clock started
C28_Witness ==
  /\ call.op = "process"
  /\ \E i \in AllSlots :
       /\ sessions[i].packetsSent = 2
       /\ SessionBursts(radio, i) = 1
       /\ sessions[i].lastTxTime >= sessions[i].intervalMs + 2 * TX_BURST_DELAY_MS

\* ---------------------------------------------------------------------------
\* Confusion mode: start
\* ---------------------------------------------------------------------------
\* the lowest slot with an enabled entry
LowestEnabled(E) == CHOOSE i \in EnabledSlots(E) : \A k \in EnabledSlots(E) : i <= k

\* what "confuse start" does with an enabled entry, and the tick that follows it
StartArms ==
  /\ (call'.op = "confuseStart" /\ EnabledSlots(confusionEntries) # {}) =>
       /\ confusionActive'
       /\ confusionIndex' = 0
       /\ call'.ret = Cardinality(EnabledSlots(confusionEntries))
       /\ confusionEntries' = confusionEntries
  /\ (call.op = "confuseStart" /\ call.ret > 0 /\ ConfusionTick) =>
       /\ Len(ConfusionStarts(radio')) = 1
       /\ ConfusionStarts(radio')[1].slot = LowestEnabled(confusionEntries)

\* C29: "confuse start" with no enabled entry returns NoEntries (-1) and
\* leaves confusion mode inactive and the index unchanged; with an enabled
\* entry it activates confusion mode, sets the index to 0 and returns the
\* number of enabled entries, and the tick that follows transmits the enabled
\* entry in the lowest slot.
C29_StartOrNoEntries ==
  [][ /\ StartArms
      /\ (call'.op = "confuseStart" /\ EnabledSlots(confusionEntries) = {}) =>
           /\ call'.ret = -1
           /\ ~confusionActive'
           /\ confusionIndex' = confusionIndex ]_vars

\* what the code does: "confuse start" with no enabled entry returns NoEntries
\* (-1) and leaves confusion mode as it was and the index unchanged: inactive
\* if it was inactive, and still active if it was started and its entries
\* were removed one by one since.  The rest is as in C29.
C29_FailedStartChangesNothing ==
  [][ /\ StartArms
      /\ (call'.op = "confuseStart" /\ EnabledSlots(confusionEntries) = {}) =>
           /\ call'.ret = -1
           /\ confusionActive' = confusionActive
           /\ confusionIndex' = confusionIndex
           /\ confusionEntries' = confusionEntries ]_vars

\* "confuse start" failed in a confusion mode that had been started and had
\* lost its entries
C29_Witness ==
  /\ call.op = "confuseStart"
  /\ call.ret = -1
  /\ EnabledSlots(confusionEntries) = {}
  /\ confusionActive

\* ---------------------------------------------------------------------------
\* Confusion mode: stop
\* ---------------------------------------------------------------------------
\* "confuse stop" clears the active flag and nothing else, and a call of
\* process in a stopped mode makes no confusion transmission
StopHaltsOnly ==
  /\ call'.op = "confuseStop" =>
       /\ ~confusionActive'
       /\ confusionEntries' = confusionEntries
       /\ confusionIndex' = confusionIndex
       /\ sessions' = sessions
       /\ totalPacketsSent' = totalPacketsSent
       /\ lastConfuseTime' = lastConfuseTime
       /\ clock' = clock
       /\ radio' = << >>
  /\ (call'.op = "process" /\ ~confusionActive) =>
       /\ ConfusionStarts(radio') = << >>
       /\ confusionEntries' = confusionEntries
       /\ confusionIndex' = confusionIndex
       /\ ~confusionActive'

\* C30: "confuse stop" halts the ticks and changes nothing else: every entry
\* keeps its name, signature, instance count and enabled flag, no tick
\* transmits while the mode is stopped, and the "confuse start" that follows
\* succeeds with the enabled set that was there at the stop.
C30_StopThenStartSucceeds ==
  [][ /\ StopHaltsOnly
      /\ (call.op = "confuseStop" /\ call'.op = "confuseStart") =>
           /\ call'.ret = Cardinality(EnabledSlots(confusionEntries))
           /\ call'.ret > 0
           /\ confusionActive'
           /\ confusionEntries' = confusionEntries ]_vars

\* C30 (amended): as above, but the "confuse start" that follows acts on the
\* enabled set that was there at the stop: it succeeds with it when it is not
\* empty and returns NoEntries (-1) when it is empty.
C30_StopKeepsEntries ==
  [][ /\ StopHaltsOnly
      /\ (call.op = "confuseStop" /\ call'.op = "confuseStart") =>
           /\ call'.ret = IF EnabledSlots(confusionEntries) = {} THEN -1
                          ELSE Cardinality(EnabledSlots(confusionEntries))
           /\ confusionActive' = (EnabledSlots(confusionEntries) # {})
           /\ confusionEntries' = confusionEntries ]_vars

\* a mode with three entries is stopped after a tick has moved the index
C30_Witness ==
  /\ call.op = "confuseStop"
  /\ ~confusionActive
  /\ Cardinality(EnabledSlots(confusionEntries)) = 3
  /\ confusionIndex > 0
  /\ totalPacketsSent > 0

\* ---------------------------------------------------------------------------
\* The confusion list of the TXManager of the sketch (unnamed/part_004), whose
\* catalog has more transmittable signatures than the list has slots, under
\* calls of its methods confuseAdd and confuseRemove
\* ---------------------------------------------------------------------------
\* TXManager::confuseAdd(deviceName, instanceCount) of the sketch; call.idx
\* holds the instance count
SketchConfuseAdd(deviceName, instanceCount) ==
  /\ confusionEntries' = confuseAddEntriesIn(SKETCH_BUILTIN_SIGNATURES, confusionEntries,
                                             deviceName, instanceCount)
  /\ call' = [ TxCall("confuseAdd", deviceName,
                      confuseAddReturnIn(SKETCH_BUILTIN_SIGNATURES, confusionEntries,
                                         deviceName))
               EXCEPT !.idx = instanceCount ]
  /\ radio' = << >>
  /\ UNCHANGED << sessions, confusionActive, confusionIndex, totalPacketsSent,
                  lastConfuseTime, clock, regVars >>

\* _confusionEntries after confuseAdd of the first k transmittable signatures
RECURSIVE SketchAdded(_)
SketchAdded(k) ==
  IF k = 0 THEN NoEntries
  ELSE LET E == SketchAdded(k - 1)
           sig == getTransmittableSignatureIn(SKETCH_BUILTIN_SIGNATURES, k - 1)
       IN [ prev \in { E } |->
              confuseAddEntriesIn(SKETCH_BUILTIN_SIGNATURES, prev,
                                  SKETCH_BUILTIN_SIGNATURES[sig].name, 1) ][E]

\* the lists from which the exploration starts: empty and full
SketchListSizes == { 0, TX_CONFUSION_MAX_DEVICES }

\* "Zzz": in no catalog name
NameUnknown == << 90, 122, 122 >>
\* the names given to confuseAdd: a substring of the first transmittable
\* name, a substring of the 17th, a name that is not transmittable, a name
\* that is not in the catalog
SketchAddNames == { NameAirTag, NameBose, NameFitbit, NameUnknown }
SketchInstanceCounts == { 1, 3 }
SketchRemoveNames == { NameAirTagRegistered }

InitAdd ==
  /\ sessions = [ i \in 0..(TX_MAX_CONCURRENT - 1) |-> ZeroSession ]
  /\ \E k \in SketchListSizes : confusionEntries = SketchAdded(k)
  /\ confusionActive = FALSE
  /\ totalPacketsSent = 0
  /\ confusionIndex = 0
  /\ lastConfuseTime = 0
  /\ radio = << >>
  /\ RegistryInit
  /\ MainInit
  /\ clock = 0
  /\ call = NoCall
  /\ calls = 0

NextAdd ==
  \/ \E name \in SketchAddNames, n \in SketchInstanceCounts : Step(SketchConfuseAdd(name, n))
  \/ \E name \in SketchRemoveNames : Step(ConfuseRemove(name))

SpecAdd == InitAdd /\ [][NextAdd]_vars

\* the enabled entries of E that hold signature sig
EntriesWith(E, sig) == { k \in AllEntries : E[k].enabled /\ E[k].sig = sig }

\* the slots of E that are not enabled
FreeSlots(E) == { k \in AllEntries : ~E[k].enabled }

\* C31: "confuse add" of a name that resolves to no transmittable signature
\* returns NotFound (-1) and changes nothing.  If the name resolves to a
\* signature that an enabled entry holds, only the instance count of that
\* entry changes and its slot is returned, so that no two enabled entries
\* have the same device name.  Otherwise the lowest free slot is taken for the
\* signature, and if all 16 slots are enabled NoCapacity (-2) is returned and
\* nothing changes.
C31_AddOutcomes ==
  [][ /\ \A j, k \in EnabledSlots(confusionEntries) :
           strcasecmp(confusionEntries[j].deviceName, confusionEntries[k].deviceName) = 0
             => j = k
      /\ call'.op = "confuseAdd" =>
           LET E == confusionEntries
               sig == findSignatureByNameIn(SKETCH_BUILTIN_SIGNATURES, call'.name)
               same == EntriesWith(E, sig)
               free == FreeSlots(E)
           IN /\ sig = 0 => call'.ret = -1 /\ confusionEntries' = E
              /\ (sig # 0 /\ same # {}) =>
                   /\ same = { call'.ret }
                   /\ confusionEntries' = [ E EXCEPT ![call'.ret].instanceCount = call'.idx ]
              /\ (sig # 0 /\ same = {} /\ free # {}) =>
                   /\ call'.ret \in free
                   /\ \A k \in free : call'.ret <= k
                   /\ confusionEntries' =
                        [ E EXCEPT ![call'.ret] =
                            [ deviceName |-> SKETCH_BUILTIN_SIGNATURES[sig].name,
                              sig |-> sig,
                              instanceCount |-> call'.idx,
                              enabled |-> TRUE ] ]
              /\ (sig # 0 /\ same = {} /\ free = {}) =>
                   /\ Cardinality(EnabledSlots(E)) = 16
                   /\ call'.ret = -2
                   /\ confusionEntries' = E
              /\ UNCHANGED << confusionActive, confusionIndex, sessions, totalPacketsSent >>
    ]_vars

\* the list is full and "confuse add" of a signature that is not in it has
\* returned NoCapacity
C31_Witness ==
  /\ call.op = "confuseAdd"
  /\ call.name = NameBose
  /\ call.ret = -2
  /\ Cardinality(EnabledSlots(confusionEntries)) = 16

\* ---------------------------------------------------------------------------
\* Name resolution over the catalogs of the repository and a reordered one
\* ---------------------------------------------------------------------------
\* "Fitbit2"
NameFitbit2 == NameFitbit \o << 50 >>
\* "tile"
NameTileLower == << 116, 105, 108, 101 >>
\* "Meta"
NameMeta == << 77, 101, 116, 97 >>

\* catalog entries in another order: Tile (Alt) before Tile, Bose Audio before
\* Bose Frames, Meta Ray-Ban (Tech) before Meta Ray-Ban, and after Fitbit an
\* entry Fitbit2 that is transmittable
ReorderedCatalog ==
  << BUILTIN_SIGNATURES[6], BUILTIN_SIGNATURES[18], BUILTIN_SIGNATURES[5],
     BUILTIN_SIGNATURES[21], BUILTIN_SIGNATURES[13], BUILTIN_SIGNATURES[9],
     BUILTIN_SIGNATURES[8],
     [ BUILTIN_SIGNATURES[18] EXCEPT !.name = NameFitbit2,
                                     !.flags = @ + SIG_FLAG_TRANSMITTABLE ] >>

ResolveCatalogs == << BUILTIN_SIGNATURES, SKETCH_BUILTIN_SIGNATURES, ReorderedCatalog >>

\* the names asked for: every name of the catalog, names in another letter
\* case, substrings, the empty string and a name in no catalog
ResolveNames ==
  { BUILTIN_SIGNATURES[i].name : i \in 1..BUILTIN_SIGNATURE_COUNT }
  \cup { NameAirTag, NameAirTagLower, NameBose, NameTileLower, NameMeta, NameFitbit2,
         NameUnknown, << >> }

ResolveInputs ==
  { [ NoCall EXCEPT !.op = "resolve", !.idx = c, !.name = name ] :
      c \in DOMAIN ResolveCatalogs, name \in ResolveNames }

\* findSignatureByName(call.name) over catalog call.idx
ResolveName ==
  /\ call.op = "resolve"
  /\ call' = [ call EXCEPT !.op = "findSignatureByName",
                           !.ret = findSignatureByNameIn(ResolveCatalogs[call.idx], call.name) ]
  /\ UNCHANGED << txVars, clock, regVars >>

InitResolve ==
  /\ TXManagerInit
  /\ RegistryInit
  /\ MainInit
  /\ clock = 0
  /\ call \in ResolveInputs
  /\ calls = 0

NextResolve == Step(ResolveName)

SpecResolve == InitResolve /\ [][NextResolve]_vars

\* entry i of sigs is transmittable and its name is the query ignoring case
NameEquals(sigs, i, name) ==
  /\ HasFlag(sigs[i].flags, SIG_FLAG_TRANSMITTABLE)
  /\ Len(sigs[i].name) = Len(name)
  /\ \A k \in 1..Len(name) : tolower(sigs[i].name[k]) = tolower(name[k])

\* entry i of sigs is transmittable and its name contains the query ignoring case
NameContains(sigs, i, name) ==
  /\ HasFlag(sigs[i].flags, SIG_FLAG_TRANSMITTABLE)
  /\ \E at \in 0..(Len(sigs[i].name) - Len(name)) :
       \A k \in 1..Len(name) : tolower(sigs[i].name[at + k]) = tolower(name[k])

\* C32: the signature that name resolution returns is transmittable.  If the
\* name of a transmittable signature equals the query ignoring case, the first
\* such signature of the catalog is returned, even when an entry before it
\* contains the query; if there is none, the first transmittable signature
\* whose name contains the query ignoring case is returned; if there is none
\* of these either, nothing is returned, as for a name that only signatures
\* that are not transmittable have.
C32_TwoPasses ==
  call.op = "findSignatureByName" =>
    LET sigs == ResolveCatalogs[call.idx]
        r == call.ret
        equal == { i \in 1..Len(sigs) : NameEquals(sigs, i, call.name) }
        inside == { i \in 1..Len(sigs) : NameContains(sigs, i, call.name) }
    IN /\ r \in 0..Len(sigs)
       /\ r # 0 => HasFlag(sigs[r].flags, SIG_FLAG_TRANSMITTABLE)
       /\ equal # {} => r \in equal /\ \A i \in equal : r <= i
       /\ (equal = {} /\ inside # {}) => r \in inside /\ \A i \in inside : r <= i
       /\ inside = {} => r = 0

\* "Tile" resolves to the third entry of the reordered catalog, whose first
\* entry "Tile (Alt)" contains it
C32_Witness ==
  /\ call.op = "findSignatureByName"
  /\ call.idx = 3
  /\ call.name = BUILTIN_SIGNATURES[5].name
  /\ NameContains(ReorderedCatalog, 1, call.name)
  /\ call.ret = 3

\* ---------------------------------------------------------------------------
\* Stopping a session by the name it was started with
\* ---------------------------------------------------------------------------
\* C33: when startTx(name, ...) has started a session and stopTx is called
\* next with the same string, while the session is active, stopTx returns
\* success (0) and the session is no longer active.
C33_StopByStartName ==
  [][ ( /\ call.op = "startTx"
        /\ call.ret >= 0
        /\ sessions[call.ret].active
        /\ call'.op = "stopTx"
        /\ call'.name = call.name )
      => /\ call'.ret = 0
         /\ ~sessions'[call.ret].active ]_vars

\* ---------------------------------------------------------------------------
\* Sessions started with a count of 0, 1 or 2
\* ---------------------------------------------------------------------------
CountNames == { NameAirTagRegistered, NameSnapSpectacles }
StartCounts == { 0, 1, 2 }

NextCount ==
  \/ \E name \in CountNames, count \in StartCounts, seed \in StartSeeds :
        Step(StartTx(name, TX_DEFAULT_INTERVAL_MS, count, FALSE, seed))
  \/ \E seed \in RandomSeeds : Step(Process(seed))
  \/ \E d \in TickDeltas : Step(Tick(d))

SpecCount == InitAddress /\ [][NextCount]_vars

\* C34: a session started with a count N >= 0 never sends more than N
\* packets: from its start on, the packets it has sent and the packets that
\* remain add up to N, and the remaining count does not go below 0.  So a
\* session with no packet remaining, as one started with count 0, makes no
\* burst.
C34_CountBoundsPackets ==
  [][ \A i \in AllSlots :
        ( /\ sessions[i].sig # 0
          /\ sessions[i].remainingCount >= 0
          /\ ~(call'.op = "startTx" /\ call'.ret = i) )
        => /\ sessions'[i].remainingCount >= 0
           /\ sessions'[i].packetsSent + sessions'[i].remainingCount
                = sessions[i].packetsSent + sessions[i].remainingCount
           /\ sessions[i].remainingCount = 0 => SessionBursts(radio', i) = 0 ]_vars

\* ---------------------------------------------------------------------------
\* Confusion mode and the enabled entries
\* ---------------------------------------------------------------------------
\* C35: whenever confusion mode is active, at least one confusion entry is
\* enabled, whatever calls of add, remove, clear, start and stop came before;
\* so that an active confusion mode, which keeps the scan suspended, has
\* something to transmit.
C35_ActiveHasEntries ==
  confusionActive => EnabledSlots(confusionEntries) # {}

\* ---------------------------------------------------------------------------
\* stopAll and confuseClear next to running sessions and confusion mode
\* ---------------------------------------------------------------------------
NextHalt ==
  \/ Step(StopAll)
  \/ Step(ConfuseClear)
  \/ Step(ConfuseStart)
  \/ \E seed \in RandomSeeds : Step(Process(seed))
  \/ \E d \in TickDeltas : Step(Tick(d))

SpecHalt == InitConfusion /\ [][NextHalt]_vars

\* the round-robin index, the packets sent by each session and the total of
\* packets sent stay as they are
CountersStay ==
  /\ confusionIndex' = confusionIndex
  /\ \A i \in AllSlots : sessions'[i].packetsSent = sessions[i].packetsSent
  /\ totalPacketsSent' = totalPacketsSent

\* C36: stopAll deactivates every session and sets confusion mode inactive;
\* "confuse clear" disables every confusion entry and sets confusion mode
\* inactive.  Both leave the round-robin index, the packets sent by each
\* session and the total of packets sent as they are, and stopAll leaves the
\* enabled flag of every confusion entry as it is.
C36_StopAllAndClear ==
  [][ /\ call'.op = "stopAll" =>
           /\ \A i \in AllSlots : ~sessions'[i].active
           /\ ~confusionActive'
           /\ CountersStay
           /\ \A k \in AllEntries : confusionEntries'[k].enabled = confusionEntries[k].enabled
      /\ call'.op = "confuseClear" =>
           /\ \A k \in AllEntries : ~confusionEntries'[k].enabled
           /\ ~confusionActive'
           /\ CountersStay ]_vars

\* stopAll has stopped a session that has sent a packet and a confusion mode
\* with three entries whose index a tick has moved
C36_Witness ==
  /\ call.op = "stopAll"
  /\ ~confusionActive
  /\ Cardinality(EnabledSlots(confusionEntries)) = 3
  /\ confusionIndex > 0
  /\ \E i \in AllSlots : sessions[i].packetsSent > 0 /\ sessions[i].remainingCount = -1
  /\ totalPacketsSent > 1

\* ---------------------------------------------------------------------------
\* Starting again after a session has ended
\* ---------------------------------------------------------------------------
\* the slots of the sessions that have ended: started once and not active
EndedSlots(S) == { j \in AllSlots : S[j].sig # 0 /\ ~S[j].active }

\* the slots that are not active
InactiveSlots(S) == { j \in AllSlots : ~S[j].active }

\* C37: when a session has ended, by stopTx, stopAll or the end of its count,
\* a start request does not fail with NoCapacity (-3), and a start request
\* for the device name of the ended session does not fail with AlreadyActive
\* (-2): it starts a session with packetsSent = 0 in the inactive slot of the
\* lowest index.
C37_EndedSlotReusable ==
  [][ (call'.op = "startTx" /\ EndedSlots(sessions) # {}) =>
        /\ call'.ret # -3
        /\ (\E j \in EndedSlots(sessions) :
              strcasecmp(sessions[j].deviceName, call'.name) = 0) =>
             /\ call'.ret \in InactiveSlots(sessions)
             /\ \A k \in InactiveSlots(sessions) : call'.ret <= k
             /\ sessions'[call'.ret].active
             /\ sessions'[call'.ret].packetsSent = 0 ]_vars

\* ---------------------------------------------------------------------------
\* Signatures behind an earlier signature of the same company
\* ---------------------------------------------------------------------------
MatchCatalogs == << BUILTIN_SIGNATURES, SKETCH_BUILTIN_SIGNATURES >>

\* the company ids of the two catalogs, and one of no catalog
ShadowCompanyIds ==
  { BUILTIN_SIGNATURES[i].company_id : i \in 1..BUILTIN_SIGNATURE_COUNT }
  \cup { SKETCH_BUILTIN_SIGNATURES[i].company_id : i \in 1..SKETCH_BUILTIN_SIGNATURE_COUNT }
  \cup { 6 }

\* advertisements with a manufacturer record of each company, alone or after
\* Flags, with and without data after the company id
ShadowPayloads ==
  { pre \o MfgData(c, tail) :
      pre \in { << >>, << 2, 1, 6 >> }, c \in ShadowCompanyIds, tail \in { << >>, << 7, 25 >> } }

ShadowInputs ==
  { [ NoCall EXCEPT !.op = "observe", !.idx = c, !.payload = payload ] :
      c \in DOMAIN MatchCatalogs, payload \in ShadowPayloads }

\* matchSignature(device) over catalog call.idx
MatchInCatalog ==
  /\ call.op = "observe"
  /\ call' = [ call EXCEPT !.op = "matchSignature",
                           !.ret = matchSignatureIn(MatchCatalogs[call.idx], call.payload) ]
  /\ UNCHANGED << txVars, clock, regVars >>

InitShadow ==
  /\ TXManagerInit
  /\ RegistryInit
  /\ MainInit
  /\ clock = 0
  /\ call \in ShadowInputs
  /\ calls = 0

NextShadow == Step(MatchInCatalog)

SpecShadow == InitShadow /\ [][NextShadow]_vars

\* the signatures of sigs that the matcher tests on the company id only: the
\* COMPANY_ID flag and no pattern to look for (it reads no service UUID and no
\* name pattern)
CompanyOnly(sigs) ==
  { i \in 1..Len(sigs) :
      /\ HasFlag(sigs[i].flags, SIG_FLAG_COMPANY_ID)
      /\ ~(HasFlag(sigs[i].flags, SIG_FLAG_PAYLOAD) /\ sigs[i].pattern_length > 0) }

\* those of them that stand behind a signature without EXACT_MATCH that has
\* the COMPANY_ID flag and the same company id
Shadowed(sigs) ==
  { i \in CompanyOnly(sigs) :
      \E j \in 1..(i - 1) :
         /\ ~HasFlag(sigs[j].flags, SIG_FLAG_EXACT_MATCH)
         /\ HasFlag(sigs[j].flags, SIG_FLAG_COMPANY_ID)
         /\ sigs[j].company_id = sigs[i].company_id }

====
